---- MODULE Spec2Model ----
(***************************************************************************)
(* A model of lingo's node tree (src/lingo/flow.py), of the interpreter    *)
(* that walks it against a Context, of the State container                 *)
(* (src/lingo/state.py), of the validator of flow documents                *)
(* (src/lingo/flow_validator.py) and of the serializer that turns trees    *)
(* into documents and back (src/lingo/serializer.py).                      *)
(*                                                                         *)
(* The interpreter is modelled in small steps: the Python call stack of    *)
(* nested `await node.execute(context)` calls is the variable `stack`, one *)
(* frame per call; an exception in flight is the variable `exc`.           *)
(* History variables (`executed`, `produced`, `lastExit`, `origin`, `asks`, *)
(* and the frame fields entry, mark, pre, ran, asked, answer) record what  *)
(* happened; no action reads them to decide what to do.                    *)
(***************************************************************************)
EXTENDS Integers, Sequences, FiniteSets, TLC

VARIABLES
    tree,       \* the node tree handed to the top-level execute
    initial,    \* the messages the Context was created with
    messages,   \* Context.messages
    stack,      \* the call stack of execute() frames, innermost last
    exc,        \* the exception in flight, "none" when there is none
    executed,   \* history: paths of the nodes whose execute was entered, in order
    produced,   \* history: the messages the leaf nodes constructed, in order
    lastExit,   \* history: the frame that left the stack last, and how
    origin,     \* history: where the exception in flight was raised, and which
    asks,       \* history: the decide / choose calls made, with the provider's answer
    flow,       \* construction: the Flow object the builder calls act on
    built,      \* construction: the outcome of the last constructor or builder call
    calls,      \* construction: appends asked of `flow` since Flow()
    fresh,      \* construction: `flow` is as Flow() and its builder calls left it
    heap,       \* State: the objects, by address (a sequence: address = index)
    stS,        \* State: the address of the State `s`
    stC,        \* State: the address of its clone `c`, 0 before s.clone()
    stOps,      \* State: operations made on s and c
    stLast,     \* State, history: the last operation and the values before it
    scopes,     \* State: the atomic() and fork() scopes of s that are open
    scExc,      \* State: the exception in flight in the code using s
    scLast,     \* State, history: the last scope left, and how
    atObj,      \* attributes: the State whose attributes are used
    atLast,     \* attributes, history: the last use, what was there, the outcome
    vaData,     \* validator: the parsed document (or node document) given
    vaErrors,   \* validator: the list of diagnostics returned
    vaOrder,    \* validator: the order this process iterates sets of strings in
    vaStep,     \* validator: what is given, and whether it was validated
    szRegistry, \* serializer: tool_registry, the names of the registered tools
    szTree,     \* serializer: the Flow given to serialize_flow
    szDoc,      \* serializer: the document made, or the one given to load
    szOut,      \* serializer: the outcome of the last conversion
    szStep      \* serializer: what is given, and what was done with it

vars == <<tree, initial, messages, stack, exc, executed, produced, lastExit,
          origin, asks, flow, built, calls, fresh,
          heap, stS, stC, stOps, stLast, scopes, scExc, scLast,
          atObj, atLast, vaData, vaErrors, vaOrder, vaStep,
          szRegistry, szTree, szDoc, szOut, szStep>>

execVars == <<tree, initial, messages, stack, exc, executed, produced,
              lastExit, origin, asks>>

buildVars == <<flow, built, calls, fresh>>

scopeVars == <<scopes, scExc, scLast>>

stateVars == <<heap, stS, stC, stOps, stLast, scopeVars>>

attrVars == <<atObj, atLast>>

validatorVars == <<vaData, vaErrors, vaOrder, vaStep>>

serializerVars == <<szRegistry, szTree, szDoc, szOut, szStep>>

\* no document is validated
NoDocuments ==
    /\ vaData = <<>>
    /\ vaErrors = <<>>
    /\ vaOrder = "forward"
    /\ vaStep = "none"

\* nothing is converted
NoConversions ==
    /\ szRegistry = {}
    /\ szTree = <<>>
    /\ szDoc = <<>>
    /\ szOut = <<>>
    /\ szStep = "none"

\* no attribute of a State is used
NoAttributes ==
    /\ atObj = [items |-> <<>>, vars |-> <<>>]
    /\ atLast = [op |-> "none"]

-----------------------------------------------------------------------------
(* Bounds *)

\* longest initial message list of a top-level invocation
MaxInitial == 2

\* most appends (builder calls, direct appends) asked of one Flow
MaxCalls == 2

\* most positional arguments handed to Route(...) or Invoke(...)
MaxArgs == 2

\* most operations made on a State and its clone
MaxOps == 2

\* most atomic() and fork() scopes entered, one inside the other
MaxScopes == 2

-----------------------------------------------------------------------------
(* Messages (src/lingo/llm.py) *)

Message(role, content) == [role |-> role, content |-> content]

MessageSystem(content) == Message("system", content)

MessageUser(content) == Message("user", content)

MessageAssistant(content) == Message("assistant", content)

MessageTool(content) == Message("tool", content)

\* Context.add: the Context class is not among the sources; it appends.
ContextAdd(msgs, m) == Append(msgs, m)

-----------------------------------------------------------------------------
(* Exceptions *)

NoException == "none"

\* what the decision provider (context.reply / decide / choose / equip /
\* invoke / create) may raise: any exception; two stand for all of them
ProviderErrors == {"RuntimeError", "ProviderError"}

\* no State exists (the specifications of the node tree)
NoStates ==
    /\ heap = <<>>
    /\ stS = 0
    /\ stC = 0
    /\ stOps = 0
    /\ stLast = [op |-> "none"]
    /\ scopes = <<>>
    /\ scExc = "none"
    /\ scLast = [op |-> "none"]

-----------------------------------------------------------------------------
(* Node constructors.  A constructor yields [ok, node] or [ok, raised]. *)

Ok(node) == [ok |-> TRUE, node |-> node, raised |-> NoException]

Raise(e) == [ok |-> FALSE, node |-> [kind |-> "none"], raised |-> e]

AddSystemMessage(content) == [kind |-> "AddSystemMessage", content |-> content]

AddUserMessage(content) == [kind |-> "AddUserMessage", content |-> content]

AddAssistantMessage(content) == [kind |-> "AddAssistantMessage", content |-> content]

Reply(instructions) == [kind |-> "Reply", instructions |-> instructions]

\* Invoke.__init__: `if not tools: raise ValueError`
InvokeInitGuard(tools) == Len(tools) = 0

Invoke_init(tools) ==
    IF InvokeInitGuard(tools)
    THEN Raise("ValueError")
    ELSE Ok([kind |-> "Invoke", tools |-> tools])

Invoke(tools) == Invoke_init(tools).node

NoOp == [kind |-> "NoOp"]

Create(model, instructions) ==
    [kind |-> "Create", model |-> model, instructions |-> instructions]

Sequence(nodes) == [kind |-> "Sequence", nodes |-> nodes]

Decide(on_true, on_false, instructions) ==
    [kind |-> "Decide", on_true |-> on_true, on_false |-> on_false,
     instructions |-> instructions]

\* choices: the dict, as the sequence of its (key, node) items in insertion order
Choose(choices, instructions) ==
    [kind |-> "Choose", choices |-> choices, instructions |-> instructions]

RouteInitGuard_OneFlow(flows) == Len(flows) < 1

\* Route.__init__: `if len(flows) < 2: raise ValueError`
RouteInitGuard(flows) == Len(flows) < 2

Route_init(flows) ==
    IF RouteInitGuard(flows)
    THEN Raise("ValueError")
    ELSE Ok([kind |-> "Route", flows |-> flows])

Route(flows) == Route_init(flows).node

\* Flow.__init__ sets name and description and nothing else: it does not call
\* Sequence.__init__, so the object has no `nodes` attribute (has_nodes = FALSE)
\* until something assigns one.  A name that is not given is generated
\* (uuid4); "Flow-uuid" stands for it.
Flow_init(name, description) ==
    [kind |-> "Flow",
     name |-> IF name = "" THEN "Flow-uuid" ELSE name,
     description |-> description,
     has_nodes |-> FALSE,
     nodes |-> <<>>]

\* `flow.nodes = [...]`, as FlowSerializer.deserialize_flow does after Flow(...)
SetNodes(f, nodes) == [f EXCEPT !.has_nodes = TRUE, !.nodes = nodes]

FlowOf(name, description, nodes) == SetNodes(Flow_init(name, description), nodes)

-----------------------------------------------------------------------------
(* The trees that are executed: every branching node over every pair of    *)
(* branch bodies, alone, inside a Sequence, and nested inside another      *)
(* branching node.                                                         *)

\* a branch that appends a message and then asks the provider, which may fail
AddThenReply == Sequence(<<AddUserMessage("u"), Reply(<<>>)>>)

ToolSteps ==
    Sequence(<<AddSystemMessage("s"), Invoke(<<"tool">>), AddAssistantMessage("a")>>)

Bodies ==
    { NoOp, AddUserMessage("u"), AddThenReply, ToolSteps, Create("Model", <<>>),
      Sequence(<<>>), Flow_init("", "") }

SmallBodies == { NoOp, AddThenReply }

BranchingOver(S, T) ==
    { Decide(a, b, <<>>) : a \in S, b \in T }
    \cup { Choose(<<[key |-> "k1", node |-> a], [key |-> "k2", node |-> b]>>, <<>>) :
             a \in S, b \in T }
    \cup { Route(<<FlowOf("MathFlow", "handles calculations", <<a>>),
                   FlowOf("OtherFlow", "", <<b>>)>>) : a \in S, b \in T }

Inner == BranchingOver(Bodies, Bodies)

SmallInner == BranchingOver(SmallBodies, SmallBodies)

Trees ==
    Inner
    \cup { Sequence(<<AddSystemMessage("p"), x, AddUserMessage("q")>>) : x \in Inner }
    \cup BranchingOver(SmallInner, SmallBodies)
    \cup { FlowOf("Main", "", <<AddUserMessage("u"), x, Reply(<<>>)>>) : x \in SmallInner }

InitialPool == { MessageUser("Start"), MessageSystem("Be brief") }

RECURSIVE SeqsUpTo(_, _)
SeqsUpTo(S, n) ==
    IF n = 0 THEN { <<>> }
    ELSE LET shorter == SeqsUpTo(S, n - 1)
         IN  shorter \cup { Append(q, x) : q \in { r \in shorter : Len(r) = n - 1 }, x \in S }

-----------------------------------------------------------------------------
(* Frames *)

Branching == {"Decide", "Choose", "Route"}

Sequential == {"Sequence", "Flow"}

NewFrame(node, path, msgs, nproduced) ==
    [node |-> node, path |-> path, pc |-> "start", i |-> 1,
     entry |-> msgs, mark |-> nproduced, pre |-> msgs,
     ran |-> <<>>, asked |-> 0, answer |-> ""]

NoFrame == NewFrame([kind |-> "none"], <<>>, <<>>, 0)

Top == stack[Len(stack)]

Rest == SubSeq(stack, 1, Len(stack) - 1)

Running == stack # <<>> /\ exc = NoException

\* the frame `f` leaves the stack
Leave(f, how) ==
    /\ stack' = Rest
    /\ lastExit' = [frame |-> f, how |-> how]
    /\ UNCHANGED <<buildVars, stateVars, attrVars, validatorVars, serializerVars>>

\* the frame `f` stays and calls execute on its child number `idx`
Call(f, idx, child) ==
    /\ stack' = Append(Rest \o <<[f EXCEPT !.ran = Append(@, idx), !.pre = messages]>>,
                       NewFrame(child, Append(f.path, idx), messages, Len(produced)))
    /\ executed' = Append(executed, Append(f.path, idx))
    /\ UNCHANGED lastExit
    /\ UNCHANGED <<buildVars, stateVars, attrVars, validatorVars, serializerVars>>

\* a leaf appends `m` through `after`, the messages its execute leaves behind
LeafAdds(m, after) ==
    /\ messages' = after
    /\ produced' = Append(produced, m)
    /\ Leave(Top, "returned")
    /\ UNCHANGED <<tree, initial, exc, executed, origin, asks>>

\* the provider call of the node on top raises `e`: the frame is left at once
ProviderRaises(e) ==
    /\ exc' = e
    /\ origin' = [path |-> Top.path, exc |-> e]
    /\ asks' = IF Top.node.kind \in Branching
               THEN Append(asks, [path |-> Top.path, answer |-> "raised"])
               ELSE asks
    /\ Leave([Top EXCEPT !.asked = @ + 1], "raised")
    /\ UNCHANGED <<tree, initial, messages, executed, produced>>

-----------------------------------------------------------------------------
(* Leaf nodes *)

AddSystemMessage_execute_AtFront(node, msgs) == <<MessageSystem(node.content)>> \o msgs

\* AddSystemMessage.execute: context.add(Message.system(self.content))
AddSystemMessage_execute(node, msgs) == ContextAdd(msgs, MessageSystem(node.content))

\* AddUserMessage.execute: context.add(Message.user(self.content))
AddUserMessage_execute(node, msgs) == ContextAdd(msgs, MessageUser(node.content))

\* AddAssistantMessage.execute: context.add(Message.assistant(self.content))
AddAssistantMessage_execute(node, msgs) ==
    ContextAdd(msgs, MessageAssistant(node.content))

ExecAddSystemMessage ==
    /\ Running
    /\ Top.node.kind = "AddSystemMessage"
    /\ LeafAdds(MessageSystem(Top.node.content),
                AddSystemMessage_execute(Top.node, messages))

ExecAddUserMessage ==
    /\ Running
    /\ Top.node.kind = "AddUserMessage"
    /\ LeafAdds(MessageUser(Top.node.content),
                AddUserMessage_execute(Top.node, messages))

ExecAddAssistantMessage ==
    /\ Running
    /\ Top.node.kind = "AddAssistantMessage"
    /\ LeafAdds(MessageAssistant(Top.node.content),
                AddAssistantMessage_execute(Top.node, messages))

\* NoOp.execute: pass
ExecNoOp ==
    /\ Running
    /\ Top.node.kind = "NoOp"
    /\ Leave(Top, "returned")
    /\ UNCHANGED <<tree, initial, messages, exc, executed, produced, origin, asks>>

\* Reply.execute: response = await context.reply(...); context.add(response)
ExecReply ==
    /\ Running
    /\ Top.node.kind = "Reply"
    /\ \/ \E e \in ProviderErrors : ProviderRaises(e)
       \/ LET response == MessageAssistant("reply")
          IN  LeafAdds(response, ContextAdd(messages, response))

\* Invoke.execute: equip, then invoke, then context.add(Message.tool(result));
\* either provider call may raise, and nothing is added before both returned
ExecInvoke ==
    /\ Running
    /\ Top.node.kind = "Invoke"
    /\ \/ \E e \in ProviderErrors : ProviderRaises(e)
       \/ LET m == MessageTool("result")
          IN  LeafAdds(m, ContextAdd(messages, m))

\* Create.execute: response = await context.create(...);
\* context.add(Message.system(response))
ExecCreate ==
    /\ Running
    /\ Top.node.kind = "Create"
    /\ \/ \E e \in ProviderErrors : ProviderRaises(e)
       \/ LET m == MessageSystem("object")
          IN  LeafAdds(m, ContextAdd(messages, m))

-----------------------------------------------------------------------------
(* Composite nodes *)

SequenceOrder_Reversed(nodes, i) == Len(nodes) + 1 - i

\* `for node in self.nodes`: the i-th iteration runs the i-th element
SequenceOrder(nodes, i) == i

\* Sequence.execute (inherited by Flow).  A Flow that was never given `nodes`
\* fails on `self.nodes` with AttributeError.
ExecSequence ==
    /\ Running
    /\ Top.node.kind \in Sequential
    /\ \/ /\ Top.node.kind = "Flow"
          /\ ~Top.node.has_nodes
          /\ exc' = "AttributeError"
          /\ origin' = [path |-> Top.path, exc |-> "AttributeError"]
          /\ Leave(Top, "raised")
          /\ UNCHANGED <<tree, initial, messages, executed, produced, asks>>
       \/ /\ Top.node.kind = "Flow" => Top.node.has_nodes
          /\ Top.i <= Len(Top.node.nodes)
          /\ LET idx == SequenceOrder(Top.node.nodes, Top.i)
             IN  Call([Top EXCEPT !.i = @ + 1], idx, Top.node.nodes[idx])
          /\ UNCHANGED <<tree, initial, messages, exc, produced, origin, asks>>
       \/ /\ Top.node.kind = "Flow" => Top.node.has_nodes
          /\ Top.i > Len(Top.node.nodes)
          /\ Leave(Top, "returned")
          /\ UNCHANGED <<tree, initial, messages, exc, executed, produced, origin, asks>>

DecideSelect_Swapped(result) == IF result THEN 2 ELSE 1

\* Decide.execute: node_to_run = self.on_true if result else self.on_false.
\* Child 1 is on_true, child 2 is on_false.
DecideSelect(result) == IF result THEN 1 ELSE 2

DecideChild(node, idx) == IF idx = 1 THEN node.on_true ELSE node.on_false

\* Decide.execute up to and including the call of the selected child
ExecDecide ==
    /\ Running
    /\ Top.node.kind = "Decide"
    /\ Top.pc = "start"
    /\ \/ \E e \in ProviderErrors : ProviderRaises(e)
       \/ \E result \in BOOLEAN :
            LET idx == DecideSelect(result)
                f == [Top EXCEPT !.pc = "await", !.asked = @ + 1,
                                 !.answer = IF result THEN "True" ELSE "False"]
            IN  /\ Call(f, idx, DecideChild(Top.node, idx))
                /\ asks' = Append(asks, [path |-> f.path, answer |-> f.answer])
                /\ UNCHANGED <<tree, initial, messages, exc, produced, origin>>

Keys(choices) == { choices[i].key : i \in 1..Len(choices) }

ChooseSelect_DefaultsToFirst(choices, key) ==
    IF key \in Keys(choices)
    THEN CHOOSE i \in 1..Len(choices) : choices[i].key = key
    ELSE 1

\* Choose.execute: node_to_run = self.choices.get(selected_key); 0 stands for None
ChooseSelect(choices, key) ==
    IF key \in Keys(choices)
    THEN CHOOSE i \in 1..Len(choices) : choices[i].key = key
    ELSE 0

\* what context.choose may answer a Choose node: one of the option keys, or
\* something else
ChooseAnswers(choices) == Keys(choices) \cup {"unknown"}

\* Choose.execute: `if node_to_run: await node_to_run.execute(context)`
ExecChoose ==
    /\ Running
    /\ Top.node.kind = "Choose"
    /\ Top.pc = "start"
    /\ \/ \E e \in ProviderErrors : ProviderRaises(e)
       \/ \E key \in ChooseAnswers(Top.node.choices) :
            LET idx == ChooseSelect(Top.node.choices, key)
                f == [Top EXCEPT !.pc = "await", !.asked = @ + 1, !.answer = key]
            IN  /\ IF idx # 0
                   THEN Call(f, idx, Top.node.choices[idx].node)
                   ELSE Leave(f, "returned") /\ UNCHANGED executed
                /\ asks' = Append(asks, [path |-> f.path, answer |-> f.answer])
                /\ UNCHANGED <<tree, initial, messages, exc, produced, origin>>

\* Route.execute: the descriptions handed to the provider
RouteDescriptions(flows) ==
    [i \in 1..Len(flows) |->
        [name |-> flows[i].name,
         desc |-> IF flows[i].description = "" THEN "No description provided."
                  ELSE flows[i].description]]

\* Route.execute: selected_flow = await context.choose(list(self.flows), ...);
\* await selected_flow.execute(context).  The provider answers one of the flows.
ExecRoute ==
    /\ Running
    /\ Top.node.kind = "Route"
    /\ Top.pc = "start"
    /\ \/ \E e \in ProviderErrors : ProviderRaises(e)
       \/ \E idx \in 1..Len(Top.node.flows) :
            LET f == [Top EXCEPT !.pc = "await", !.asked = @ + 1,
                                 !.answer = RouteDescriptions(Top.node.flows)[idx].name]
            IN  /\ Call(f, idx, Top.node.flows[idx])
                /\ asks' = Append(asks, [path |-> f.path, answer |-> f.answer])
                /\ UNCHANGED <<tree, initial, messages, exc, produced, origin>>

OnChildReturn_Restoring(f, msgs) == f.entry

\* Decide / Choose / Route .execute after the child returned: the method ends;
\* the child has mutated the context in place and nothing is done to it
OnChildReturn(f, msgs) == msgs

BranchReturn ==
    /\ Running
    /\ Top.node.kind \in Branching
    /\ Top.pc = "await"
    /\ messages' = OnChildReturn(Top, messages)
    /\ Leave(Top, "returned")
    /\ UNCHANGED <<tree, initial, exc, executed, produced, origin, asks>>

\* Sequence / Decide / Choose / Route .execute when the child raised: none of
\* them has a try block, so the exception passes through the frame and the
\* context stays as the child left it
OnChildRaise(f, msgs) == msgs

Propagate ==
    /\ stack # <<>>
    /\ exc # NoException
    /\ messages' = OnChildRaise(Top, messages)
    /\ Leave(Top, "child raised")
    /\ UNCHANGED <<tree, initial, exc, executed, produced, origin, asks>>

-----------------------------------------------------------------------------
(* Flow.__call__: context = Context(llm, list(messages)); self.execute(context) *)

InitExec ==
    /\ tree \in Trees
    /\ initial \in SeqsUpTo(InitialPool, MaxInitial)
    /\ messages = initial
    /\ stack = <<NewFrame(tree, <<>>, initial, 0)>>
    /\ exc = NoException
    /\ executed = << <<>> >>
    /\ produced = <<>>
    /\ lastExit = [frame |-> NoFrame, how |-> "nothing"]
    /\ origin = [path |-> <<>>, exc |-> NoException]
    /\ asks = <<>>
    /\ flow = Flow_init("", "")
    /\ built = [op |-> "Flow", args |-> <<"">>, result |-> Ok(Flow_init("", ""))]
    /\ calls = 0
    /\ fresh = TRUE
    /\ NoStates
    /\ NoAttributes
    /\ NoDocuments
    /\ NoConversions

NextExec ==
    \/ ExecAddSystemMessage
    \/ ExecAddUserMessage
    \/ ExecAddAssistantMessage
    \/ ExecNoOp
    \/ ExecReply
    \/ ExecInvoke
    \/ ExecCreate
    \/ ExecSequence
    \/ ExecDecide
    \/ ExecChoose
    \/ ExecRoute
    \/ BranchReturn
    \/ Propagate

Spec == InitExec /\ [][NextExec]_vars

-----------------------------------------------------------------------------
(* Construction: the constructors with a guard, and Flow's builder methods *)

Built(op, args, result) == [op |-> op, args |-> args, result |-> result]

\* `self.nodes.append(node); return self`, the body every builder method ends
\* with.  `self.nodes` is read first: without the attribute the call fails
\* with AttributeError and the flow is as it was.
Flow_append(f, node) ==
    IF ~f.has_nodes
    THEN [flow |-> f, result |-> Raise("AttributeError")]
    ELSE LET g == [f EXCEPT !.nodes = Append(@, node)]
         IN  [flow |-> g, result |-> Ok(g)]

Flow_system(f, content) == Flow_append(f, AddSystemMessage(content))

Flow_user(f, content) == Flow_append(f, AddUserMessage(content))

Flow_assistant(f, content) == Flow_append(f, AddAssistantMessage(content))

Flow_reply(f, instructions) == Flow_append(f, Reply(instructions))

\* self.nodes.append(Invoke(*tools)): `self.nodes.append` is evaluated before
\* the argument, so a missing attribute is reported before Invoke's guard
Flow_invoke(f, tools) ==
    IF ~f.has_nodes THEN Flow_append(f, NoOp)
    ELSE IF ~Invoke_init(tools).ok
         THEN [flow |-> f, result |-> Raise(Invoke_init(tools).raised)]
         ELSE Flow_append(f, Invoke_init(tools).node)

Flow_decide(f, prompt, on_true, on_false) ==
    Flow_append(f, Decide(on_true, on_false, <<MessageSystem(prompt)>>))

Flow_choose(f, prompt, choices) ==
    Flow_append(f, Choose(choices, <<MessageSystem(prompt)>>))

Flow_create(f, model, instructions) == Flow_append(f, Create(model, instructions))

BuilderCall(op, args, r) ==
    /\ calls < MaxCalls
    /\ flow' = r.flow
    /\ built' = Built(op, args, r.result)
    /\ calls' = calls + 1
    /\ UNCHANGED <<fresh, execVars, stateVars, attrVars, validatorVars, serializerVars>>

NewFlow ==
    \E name \in {"", "Main"} :
        /\ flow' = Flow_init(name, "")
        /\ built' = Built("Flow", <<name>>, Ok(flow'))
        /\ calls' = 0
        /\ fresh' = TRUE
        /\ UNCHANGED <<execVars, stateVars, attrVars, validatorVars, serializerVars>>

\* flow.nodes = [], as FlowSerializer.deserialize_flow does on the Flow it made
AssignNodes ==
    /\ fresh
    /\ calls = 0
    /\ flow' = SetNodes(flow, <<>>)
    /\ fresh' = FALSE
    /\ UNCHANGED <<built, calls, execVars, stateVars, attrVars, validatorVars, serializerVars>>

CallSystem == BuilderCall("system", <<"c">>, Flow_system(flow, "c"))

CallUser == BuilderCall("user", <<"c">>, Flow_user(flow, "c"))

CallAssistant == BuilderCall("assistant", <<"c">>, Flow_assistant(flow, "c"))

CallReply == BuilderCall("reply", <<>>, Flow_reply(flow, <<>>))

ToolArgs == SeqsUpTo({"tool"}, MaxArgs)

\* a call without tools is a caller's error and is not counted as a builder call
CallInvoke ==
    \E tools \in ToolArgs :
        IF tools = <<>>
        THEN /\ built' = Built("invoke", tools, Flow_invoke(flow, tools).result)
             /\ flow' = Flow_invoke(flow, tools).flow
             /\ UNCHANGED <<calls, fresh, execVars, stateVars, attrVars, validatorVars, serializerVars>>
        ELSE BuilderCall("invoke", tools, Flow_invoke(flow, tools))

\* the default of on_false is NoOp()
CallDecide ==
    BuilderCall("decide", <<"p">>, Flow_decide(flow, "p", AddThenReply, NoOp))

CallChoose ==
    BuilderCall("choose", <<"p">>,
                Flow_choose(flow, "p", <<[key |-> "k1", node |-> NoOp]>>))

CallCreate == BuilderCall("create", <<"Model">>, Flow_create(flow, "Model", <<>>))

FlowArgs == SeqsUpTo({FlowOf("A", "", <<>>)}, MaxArgs)

NewRoute ==
    \E flows \in FlowArgs :
        /\ built' = Built("Route", flows, Route_init(flows))
        /\ UNCHANGED <<flow, calls, fresh, execVars, stateVars, attrVars, validatorVars, serializerVars>>

NewInvoke ==
    \E tools \in ToolArgs :
        /\ built' = Built("Invoke", tools, Invoke_init(tools))
        /\ UNCHANGED <<flow, calls, fresh, execVars, stateVars, attrVars, validatorVars, serializerVars>>

\* flow.nodes.append(node), as FlowSerializer.deserialize_flow does with each
\* node it has constructed
AppendBuilt ==
    /\ built.op \in {"Route", "Invoke"}
    /\ built.result.ok
    /\ flow.has_nodes
    /\ calls < MaxCalls
    /\ flow' = [flow EXCEPT !.nodes = Append(@, built.result.node)]
    /\ calls' = calls + 1
    /\ UNCHANGED <<built, fresh, execVars, stateVars, attrVars, validatorVars, serializerVars>>

InitBuild ==
    /\ tree = NoOp
    /\ initial = <<>>
    /\ messages = <<>>
    /\ stack = <<>>
    /\ exc = NoException
    /\ executed = <<>>
    /\ produced = <<>>
    /\ lastExit = [frame |-> NoFrame, how |-> "nothing"]
    /\ origin = [path |-> <<>>, exc |-> NoException]
    /\ asks = <<>>
    /\ flow = Flow_init("", "")
    /\ built = Built("Flow", <<"">>, Ok(Flow_init("", "")))
    /\ calls = 0
    /\ fresh = TRUE
    /\ NoStates
    /\ NoAttributes
    /\ NoDocuments
    /\ NoConversions

NextBuild ==
    \/ NewFlow
    \/ AssignNodes
    \/ CallSystem
    \/ CallUser
    \/ CallAssistant
    \/ CallReply
    \/ CallInvoke
    \/ CallDecide
    \/ CallChoose
    \/ CallCreate
    \/ NewRoute
    \/ NewInvoke
    \/ AppendBuilt

SpecBuild == InitBuild /\ [][NextBuild]_vars

-----------------------------------------------------------------------------
(* Properties of the interpreter *)

IsPrefix(p, q) == Len(p) <= Len(q) /\ SubSeq(q, 1, Len(p)) = p

LeftFrame == lastExit.frame

\* a branching node's frame has just left the stack because its child raised
BranchLeftByChildFailure ==
    /\ lastExit.how = "child raised"
    /\ LeftFrame.node.kind \in Branching

\* a branching node's frame has just left the stack by a normal return,
\* after a child of it ran
BranchLeftBySuccess ==
    /\ lastExit.how = "returned"
    /\ LeftFrame.node.kind \in Branching
    /\ LeftFrame.ran # <<>>

\* the frames on the stack and the one that left last
Frames == { stack[i] : i \in 1..Len(stack) } \cup
          IF lastExit.how = "nothing" THEN {} ELSE { LeftFrame }

\* the child a branching node is to run for the provider's answer, worked
\* out from the node and the answer alone; 0 when there is none
ChildFor(node, answer) ==
    CASE node.kind = "Decide" -> IF answer = "True" THEN 1 ELSE 2
      [] node.kind = "Choose" ->
            IF \E i \in 1..Len(node.choices) : node.choices[i].key = answer
            THEN CHOOSE i \in 1..Len(node.choices) : node.choices[i].key = answer
            ELSE 0
      [] node.kind = "Route" ->
            CHOOSE i \in 1..Len(node.flows) : node.flows[i].name = answer

\* the paths of the nodes executed strictly below the node at `path`
ExecutedBelow(path) ==
    { executed[i] : i \in { j \in 1..Len(executed) :
                              /\ Len(executed[j]) > Len(path)
                              /\ IsPrefix(path, executed[j]) } }

Answered(f) == f.node.kind \in Branching /\ f.asked = 1 /\ f.answer # ""

AsksAt(path) == { i \in 1..Len(asks) : asks[i].path = path }

(* C1: when the selected child of a Decide, Choose or Route raises, even   *)
(* after appending messages, context.messages is, as the exception leaves  *)
(* the branching node, what it was when the node's execute was called.     *)
C1_BranchFailureRestoresMessages ==
    BranchLeftByChildFailure => messages = LeftFrame.entry

(* C2: when the selected child raises, the branching node's caller gets    *)
(* that same exception, raised again only once the context has been rolled *)
(* back; the node does not return normally.                                *)
C2_ReraisedAfterRollback ==
    /\ BranchLeftByChildFailure =>
          /\ exc # NoException
          /\ exc = origin.exc
          /\ messages = LeftFrame.entry
    /\ (lastExit.how = "returned" /\ LeftFrame.node.kind \in Branching) =>
          origin.exc = NoException

(* C3: when the selected child of a Decide, Choose or Route completes,     *)
(* context.messages is the messages at the call followed by every message  *)
(* produced inside the branch, in the order the nodes produced them.       *)
C3_SuccessCommitsInOrder ==
    BranchLeftBySuccess =>
        messages = LeftFrame.entry
                   \o SubSeq(produced, LeftFrame.mark + 1, Len(produced))

C3_Witness ==
    /\ BranchLeftBySuccess
    /\ Len(LeftFrame.entry) > 0
    /\ Len(produced) - LeftFrame.mark >= 2
    /\ produced[Len(produced)] # produced[Len(produced) - 1]

\* a step appends the message the running node produced
GrowsByOne ==
    /\ Len(produced') = Len(produced) + 1
    /\ messages' = Append(messages, produced'[Len(produced')])

\* a step cuts the messages back to what they were when a branching node
\* that is failing was entered
CutsToBranchEntry ==
    /\ exc # NoException
    /\ \E i \in 1..Len(stack) :
          /\ stack[i].node.kind \in Branching
          /\ messages' = stack[i].entry
          /\ IsPrefix(messages', messages)

(* C4: in every reachable state the initial messages are an unchanged      *)
(* prefix of context.messages; a step leaves the messages alone, appends   *)
(* the message of the node that ran, or removes exactly the suffix added   *)
(* since a failing branch was entered.                                     *)
C4_InitialPrefixKept ==
    /\ [](IsPrefix(initial, messages))
    /\ [][messages' = messages \/ GrowsByOne \/ CutsToBranchEntry]_vars

C4_Witness ==
    /\ stack = <<>>
    /\ exc # NoException
    /\ Len(initial) = 2
    /\ initial[1] # initial[2]
    /\ Len(messages) >= Len(initial) + 2

(* C5, as stated: a branching node the provider has answered runs exactly  *)
(* one child.                                                              *)
C5_ExactlyOneChild ==
    \A f \in Frames : Answered(f) /\ f.pc = "await" => Len(f.ran) = 1

(* C5, amended: a branching node asks the provider once; it then runs the  *)
(* child selected by the answer and no other, where a Choose whose answer  *)
(* is not one of its keys runs no child at all; no node below a child that *)
(* was not selected is ever executed.                                      *)
C5_OnlySelectedChild ==
    \A f \in Frames :
        f.node.kind \in Branching =>
            /\ Cardinality(AsksAt(f.path)) = f.asked
            /\ f.asked = (IF f.pc = "start" /\ f # LeftFrame THEN 0 ELSE 1)
            /\ ~Answered(f) => f.ran = <<>>
            /\ Answered(f) =>
                 /\ \A i \in AsksAt(f.path) : asks[i].answer = f.answer
                 /\ f.ran = IF ChildFor(f.node, f.answer) = 0 THEN <<>>
                            ELSE <<ChildFor(f.node, f.answer)>>
                 /\ \A p \in ExecutedBelow(f.path) :
                        p[Len(f.path) + 1] = ChildFor(f.node, f.answer)

C5_Witness ==
    /\ stack = <<>>
    /\ LeftFrame.node.kind = "Route"
    /\ LeftFrame.answer = "MathFlow"
    /\ Cardinality(ExecutedBelow(<<>>)) >= 3
    /\ lastExit.how = "returned"

(* C6: a Choose that is answered a key that is none of its choices runs no *)
(* child, leaves context.messages as they were, raises nothing and         *)
(* returns, so that the enclosing sequence goes on with its next node.     *)
C6_UnknownKeyIsNoOp ==
    (/\ LeftFrame.node.kind = "Choose"
     /\ Answered(LeftFrame)
     /\ LeftFrame.answer \notin Keys(LeftFrame.node.choices)
     /\ lastExit.how # "nothing")
    => /\ lastExit.how = "returned"
       /\ exc = NoException
       /\ LeftFrame.ran = <<>>
       /\ ExecutedBelow(LeftFrame.path) = {}
       /\ messages = LeftFrame.entry
       /\ (stack # <<>> /\ Top.node.kind \in Sequential)
            => /\ Top.i = LeftFrame.path[Len(LeftFrame.path)] + 1
               /\ Top.i <= Len(Top.node.nodes) => ENABLED ExecSequence

\* the Choose at position 2 of a sequence was answered an unknown key and
\* position 3 has been executed since
C6_Witness ==
    /\ \E i \in 1..Len(asks) : asks[i] = [path |-> <<2>>, answer |-> "unknown"]
    /\ tree.kind = "Sequence"
    /\ tree.nodes[2].kind = "Choose"
    /\ \E j \in 1..Len(executed) : executed[j] = <<3>>
    /\ ExecutedBelow(<<2>>) = {}
    /\ stack = <<>>
    /\ exc = NoException

(* C7: a Sequence runs its children in list order, one at a time; when     *)
(* child k raises, no later child is executed, the exception reaches the   *)
(* Sequence's caller unchanged, and what the children before k appended is *)
(* still in the context.                                                   *)
C7_SequenceInOrderNoRollback ==
    \A f \in Frames :
        f.node.kind \in Sequential =>
            /\ f.ran = [j \in 1..Len(f.ran) |-> j]
            /\ { p[Len(f.path) + 1] : p \in ExecutedBelow(f.path) } = 1..Len(f.ran)
            /\ (f = LeftFrame /\ lastExit.how = "returned")
                 => Len(f.ran) = Len(f.node.nodes)
            /\ (f = LeftFrame /\ lastExit.how = "child raised")
                 => /\ exc = origin.exc
                    /\ IsPrefix(Append(f.path, Len(f.ran)), origin.path)
                    /\ IsPrefix(f.pre, messages)
                    /\ IsPrefix(f.entry, f.pre)

C7_Witness ==
    /\ lastExit.how = "child raised"
    /\ LeftFrame.node.kind = "Sequence"
    /\ Len(LeftFrame.node.nodes) = 3
    /\ LeftFrame.ran = <<1, 2>>
    /\ Len(LeftFrame.pre) > Len(LeftFrame.entry)
    /\ IsPrefix(LeftFrame.pre, messages)

-----------------------------------------------------------------------------
(* Properties of construction *)

\* the error the design calls ConfigurationError is, in flow.py, the
\* ValueError that Route.__init__ and Invoke.__init__ raise
ConfigurationError == "ValueError"

RECURSIVE NodesIn(_)
\* the nodes of a list of nodes, with the flows of every Route among them
NodesIn(nodes) ==
    IF nodes = <<>> THEN {}
    ELSE LET n == Head(nodes)
         IN  {n} \cup NodesIn(Tail(nodes))
                 \cup (IF n.kind = "Route" THEN NodesIn(n.flows) ELSE {})

WellFormed(n) ==
    /\ n.kind = "Route" => Len(n.flows) >= 2
    /\ n.kind = "Invoke" => Len(n.tools) >= 1

(* C8: Route(...) with fewer than 2 flows and Invoke(...) with no tool     *)
(* fail at construction with a ConfigurationError and yield no node; with  *)
(* 2 or more flows, 1 or more tools, they yield the node; so no flow ever  *)
(* holds a Route with fewer than 2 flows or an Invoke without tools.       *)
C8_ConstructionGuards ==
    /\ built.op = "Route" =>
          IF Len(built.args) < 2
          THEN /\ ~built.result.ok
               /\ built.result.raised = ConfigurationError
               /\ built.result.node.kind = "none"
          ELSE /\ built.result.ok
               /\ built.result.node.kind = "Route"
               /\ built.result.node.flows = built.args
    /\ built.op = "Invoke" =>
          IF Len(built.args) < 1
          THEN /\ ~built.result.ok
               /\ built.result.raised = ConfigurationError
               /\ built.result.node.kind = "none"
          ELSE /\ built.result.ok
               /\ built.result.node.kind = "Invoke"
               /\ built.result.node.tools = built.args
    /\ (built.op = "invoke" /\ built.result.ok) => Len(built.args) >= 1
    /\ \A n \in NodesIn(flow.nodes) : WellFormed(n)

\* Route(one flow) has just been refused, and the flow holds a Route and an
\* Invoke that were accepted
C8_Witness ==
    /\ built.op = "Route"
    /\ Len(built.args) = 1
    /\ ~built.result.ok
    /\ \E n \in NodesIn(flow.nodes) : n.kind = "Route"
    /\ \E n \in NodesIn(flow.nodes) : n.kind = "Invoke"

(* C9: on a Flow as Flow() made it, with or without a name, every builder  *)
(* call appends one child at the end and returns the flow: after k calls   *)
(* the flow has k children, in call order.                                 *)
C9_BuilderAppendsOne ==
    (fresh /\ calls > 0) =>
        /\ built.result.ok
        /\ built.result.node = flow
        /\ flow.has_nodes
        /\ Len(flow.nodes) = calls

-----------------------------------------------------------------------------
(* State (src/lingo/state.py): a dict subclass with attribute access.      *)
(* Python values are references to objects, so the model keeps a heap: a   *)
(* value is a scalar, or the address of a container (a dict or list, or a  *)
(* State, which carries its own _schema and _shared_keys).  No container  *)
(* is reachable from itself.                                               *)

\* the keys the containers of the model use
StateKeys == {"k", "db"}

\* the order items() yields them in
KeyOrder == <<"k", "db">>

Absent == [t |-> "absent", v |-> 0]

IntVal(n) == [t |-> "int", v |-> n]

Ref(a) == [t |-> "ref", v |-> a]

\* "20": a string that reads as the number n
NumStr(n) == [t |-> "numstr", v |-> n]

\* "not-a-number", "Guest": any other string
Text == [t |-> "str", v |-> 0]

Items(kv, dbv) == [key \in StateKeys |-> IF key = "k" THEN kv ELSE dbv]

NoItems == Items(Absent, Absent)

\* a field of a schema: its type, and its default (Absent: required)
Field(type, default) == [type |-> type, default |-> default]

\* a key the schema does not declare
Undeclared == Field("undeclared", Absent)

\* schema=None
NoSchema == "none"

\* class Memory(BaseModel): k: int; db: str = "Guest"
Memory == "Memory"

\* class Store(BaseModel): db: list
Store == "Store"

\* the fields a schema declares
SchemaFields(schema) ==
    IF schema = Memory THEN Items(Field("int", Absent), Field("str", Text))
    ELSE IF schema = Store THEN Items(Undeclared, Field("list", Absent))
    ELSE Items(Undeclared, Undeclared)

\* a plain mutable container: {"x": 1}, ["initial"]
Dict(items) ==
    [kind |-> "dict", items |-> items, shared |-> {}, schema |-> NoSchema]

StateObj(items, schema, shared_keys) ==
    [kind |-> "State", items |-> items, shared |-> shared_keys,
     schema |-> schema]

\* the outcome of a call: whether it returned, the heap after it, its value
Returned(h, v) == [ok |-> TRUE, h |-> h, v |-> v]

\* the call raised: nothing it made is reachable
Failed(h) == [ok |-> FALSE, h |-> h, v |-> Absent]

\* a new object: the heap with it, and the reference to it
Alloc(h, obj) == Returned(Append(h, obj), Ref(Len(h) + 1))

\* the schema applied to one key: Schema(**self).model_dump()[key]; a list
\* comes back as a new list of the same elements
ValidateField(h, field, v) ==
    IF field.type = "undeclared" THEN Returned(h, v)
    ELSE IF v = Absent
    THEN IF field.default = Absent THEN Failed(h)
         ELSE Returned(h, field.default)
    ELSE IF field.type = "int"
    THEN IF v.t = "int" THEN Returned(h, v)
         ELSE IF v.t = "numstr" THEN Returned(h, IntVal(v.v))
         ELSE Failed(h)
    ELSE IF field.type = "str"
    THEN IF v.t \in {"str", "numstr"} THEN Returned(h, v) ELSE Failed(h)
    ELSE IF v.t = "ref" /\ h[v.v].kind = "dict"
    THEN Alloc(h, Dict(h[v.v].items))
    ELSE Failed(h)

RECURSIVE ValidateItems(_, _, _, _)
\* the schema applied to the content, from the i-th key on
ValidateItems(h, schema, i, acc) ==
    IF i > Len(KeyOrder)
    THEN Returned(h, acc)
    ELSE LET key == KeyOrder[i]
             r == ValidateField(h, SchemaFields(schema)[key], acc[key])
         IN  IF r.ok
             THEN ValidateItems(r.h, schema, i + 1, [acc EXCEPT ![key] = r.v])
             ELSE Failed(h)

\* validate(): nothing without a schema; else the content is updated with
\* the validated model, or ValueError is raised and nothing is updated
State_validate(h, a) ==
    IF h[a].schema = NoSchema THEN Returned(h, Ref(a))
    ELSE LET r == ValidateItems(h, h[a].schema, 1, h[a].items)
         IN  IF r.ok
             THEN Returned([r.h EXCEPT ![a].items = r.v], Ref(a))
             ELSE Failed(h)

\* the constructor without its third step: the content is never validated
State_init_WithoutValidate(h, data, schema, shared_keys) ==
    Alloc(h, StateObj(data, schema, shared_keys))

\* State(data, schema=..., shared_keys=...): dict.__init__ copies the
\* entries of `data`, the values by reference; then validate()
State_init(h, data, schema, shared_keys) ==
    LET new == Alloc(h, StateObj(data, schema, shared_keys))
        r == State_validate(new.h, new.v.v)
    IN  IF r.ok THEN Returned(r.h, new.v) ELSE Failed(h)

RECURSIVE deepcopy(_, _)
RECURSIVE DeepCopyItems(_, _, _, _)
RECURSIVE SmartCopyItems(_, _, _, _)

\* _smart_copy's loop body, with the sharing dropped: every value by reference
SmartCopyValue_ByReference(h, v, isShared) == Returned(h, v)

\* _smart_copy's loop body: a shared key keeps its object, any other key gets
\* copy.deepcopy of it
SmartCopyValue(h, v, isShared) ==
    IF isShared THEN Returned(h, v) ELSE deepcopy(h, v)

\* the loop of _smart_copy over items(), from the i-th key on
SmartCopyItems(h, a, i, acc) ==
    IF i > Len(KeyOrder)
    THEN Returned(h, acc)
    ELSE LET key == KeyOrder[i]
             r == SmartCopyValue(h, h[a].items[key], key \in h[a].shared)
         IN  IF r.ok
             THEN SmartCopyItems(r.h, a, i + 1, [acc EXCEPT ![key] = r.v])
             ELSE Failed(h)

State_smart_copy(h, a) == SmartCopyItems(h, a, 1, NoItems)

\* clone(): a new State of the smart copy, with the same shared keys
State_clone(h, a) ==
    LET r == State_smart_copy(h, a)
    IN  IF r.ok
        THEN State_init(r.h, r.v, h[a].schema, h[a].shared)
        ELSE Failed(h)

\* __deepcopy__: copy.deepcopy of a State is its clone()
State_deepcopy(h, a) == State_clone(h, a)

\* copy.deepcopy of the entries of a plain container, from the i-th key on
DeepCopyItems(h, a, i, acc) ==
    IF i > Len(KeyOrder)
    THEN Returned(h, acc)
    ELSE LET key == KeyOrder[i]
             r == deepcopy(h, h[a].items[key])
         IN  IF r.ok
             THEN DeepCopyItems(r.h, a, i + 1, [acc EXCEPT ![key] = r.v])
             ELSE Failed(h)

\* copy.deepcopy: a scalar is itself, a plain container is copied entry by
\* entry, a State answers through its __deepcopy__
deepcopy(h, v) ==
    IF v.t # "ref" THEN Returned(h, v)
    ELSE IF h[v.v].kind = "State" THEN State_deepcopy(h, v.v)
    ELSE LET r == DeepCopyItems(h, v.v, 1, NoItems)
         IN  IF r.ok THEN Alloc(r.h, Dict(r.v)) ELSE Failed(h)

\* {"x": 1}, ["initial"]: a container of scalars
Leaf(h) == Alloc(h, Dict(Items(IntVal(1), Absent)))

\* {"y": {"x": 1}}: a container holding a container
Nested(h) ==
    LET d == Leaf(h)
    IN  Alloc(d.h, Dict(Items(d.v, Absent)))

\* State({"k": 1, "db": [...]}, shared_keys=...) held as a value
Child(h, shared_keys) ==
    LET d == Leaf(h)
    IN  State_init(d.h, Items(IntVal(1), d.v), NoSchema, shared_keys)

SharedSets == {{}, {"db"}}

\* the values a key of the State `s` starts with
ValueShapes(h) ==
    {Returned(h, IntVal(1)), Leaf(h), Nested(h)}
        \cup {Child(h, sh) : sh \in SharedSets}

DbShapes(h) == {Returned(h, Absent), Leaf(h)}

Schemas == {NoSchema, Memory, Store}

\* the content a State is made of: the two keys holding objects of their
\* own, or one and the same object
InitialData ==
    UNION {{Returned(d.h, Items(k.v, d.v)) : d \in DbShapes(k.h)}
           : k \in ValueShapes(<<>>)}
        \cup {Returned(Leaf(<<>>).h, Items(Leaf(<<>>).v, Leaf(<<>>).v))}

\* State({"k": ..., "db": ...}, schema=..., shared_keys=...), as far as the
\* constructor accepts the content
InitialStates ==
    {r \in {State_init(d.h, d.v, schema, sh) :
                d \in InitialData, schema \in Schemas, sh \in SharedSets} :
        r.ok}

\* the objects referred to by the entries of an object
RefsOf(obj) ==
    {obj.items[key].v : key \in {j \in StateKeys : obj.items[j].t = "ref"}}

RECURSIVE Reach(_, _)
\* the objects state.key, state.key[...], ... can lead to, from the object a
Reach(h, a) == {a} \cup UNION {Reach(h, b) : b \in RefsOf(h[a])}

\* the objects reachable under one key of the object a
Under(h, a, key) ==
    IF h[a].items[key].t = "ref" THEN Reach(h, h[a].items[key].v) ELSE {}

Targets == {"s", "c"}

StateOf(t) == IF t = "s" THEN stS ELSE stC

\* history: the operation made, on what, and the heap it was made in
Did(op, t, key, obj) ==
    /\ stLast' = [op |-> op, target |-> t, key |-> key, obj |-> obj,
                  before |-> heap,
                  since |-> IF op = "clone" THEN 0 ELSE stLast.since + 1]
    /\ UNCHANGED <<execVars, buildVars, attrVars, validatorVars, serializerVars, scopeVars>>

\* c = StateOf(t).clone(): c is the clone, or the ValueError of the clone's
\* validation is raised and nothing is assigned
CloneFrom(t) ==
    LET r == State_clone(heap, StateOf(t))
    IN  /\ heap' = IF r.ok THEN r.h ELSE heap
        /\ stC' = IF r.ok THEN r.v.v ELSE stC
        /\ Did(IF r.ok THEN "clone" ELSE "clone raised", t, "", StateOf(t))
        /\ UNCHANGED stS

\* c = s.clone()
Clone ==
    /\ stC = 0
    /\ CloneFrom("s")
    /\ UNCHANGED stOps

\* c = c.clone(): the clone of the clone
CloneOfClone ==
    /\ stC # 0
    /\ stOps < MaxOps
    /\ stOps' = stOps + 1
    /\ CloneFrom("c")

\* state.key = value, state[key] = value
State_setattr(t, key, value) ==
    /\ stOps < MaxOps
    /\ heap' = [heap EXCEPT ![StateOf(t)].items[key] = value]
    /\ stOps' = stOps + 1
    /\ Did("setattr", t, key, StateOf(t))
    /\ UNCHANGED <<stS, stC>>

\* del state.key: AttributeError, and nothing changed, when the key is absent
State_delattr(t, key) ==
    /\ stOps < MaxOps
    /\ heap' = [heap EXCEPT ![StateOf(t)].items[key] = Absent]
    /\ stOps' = stOps + 1
    /\ Did("delattr", t, key, StateOf(t))
    /\ UNCHANGED <<stS, stC>>

\* state.key[...] = value: an in-place change of an object under state.key
MutateNested(t, key, obj, field, value) ==
    /\ stOps < MaxOps
    /\ obj \in Under(heap, StateOf(t), key)
    /\ heap' = [heap EXCEPT ![obj].items[field] = value]
    /\ stOps' = stOps + 1
    /\ Did("mutate", t, key, obj)
    /\ UNCHANGED <<stS, stC>>

InitState ==
    /\ tree = NoOp
    /\ initial = <<>>
    /\ messages = <<>>
    /\ stack = <<>>
    /\ exc = NoException
    /\ executed = <<>>
    /\ produced = <<>>
    /\ lastExit = [frame |-> NoFrame, how |-> "nothing"]
    /\ origin = [path |-> <<>>, exc |-> NoException]
    /\ asks = <<>>
    /\ flow = Flow_init("", "")
    /\ built = Built("Flow", <<"">>, Ok(Flow_init("", "")))
    /\ calls = 0
    /\ fresh = TRUE
    /\ \E r \in InitialStates :
        /\ heap = r.h
        /\ stS = r.v.v
    /\ stC = 0
    /\ stOps = 0
    /\ stLast = [op |-> "none", target |-> "s", key |-> "", obj |-> 0,
                 before |-> <<>>, since |-> 0]
    /\ scopes = <<>>
    /\ scExc = "none"
    /\ scLast = [op |-> "none"]
    /\ NoAttributes
    /\ NoDocuments
    /\ NoConversions

\* no scope was left yet; n scopes were entered
NoExit(n) ==
    [op |-> "none", kind |-> "", how |-> "", thrown |-> "none",
     raised |-> "none", entry |-> <<>>, body |-> <<>>, after |-> <<>>,
     depth |-> 0, entered |-> n,
     inner |-> [op |-> "none", kind |-> "", how |-> "", entry |-> <<>>,
                body |-> <<>>, after |-> <<>>]]

\* s is cloned first, then s and c are changed
NextState ==
    \/ Clone
    \/ CloneOfClone
    \/ /\ stC # 0
       /\ \E t \in Targets, key \in StateKeys :
            State_setattr(t, key, IntVal(2))
    \/ /\ stC # 0
       /\ \E t \in Targets, key \in StateKeys : State_delattr(t, key)
    \/ /\ stC # 0
       /\ \E t \in Targets, key \in StateKeys, obj \in 1..Len(heap),
             field \in StateKeys :
                MutateNested(t, key, obj, field, IntVal(2))

SpecState == InitState /\ [][NextState]_vars

-----------------------------------------------------------------------------
(* The scopes of a State: with s.atomic(): ... and with s.fork(): ...      *)
(* The exceptions of the model are instances of Exception; the atomic      *)
(* scope catches no other (KeyboardInterrupt, SystemExit and the like      *)
(* leave it with nothing restored).                                        *)

\* an open scope: its kind, the snapshot it took and, for the history, the
\* heap it was entered in
Scope(kind, snapshot, h) == [kind |-> kind, snapshot |-> snapshot, entry |-> h]

ScopeKinds == {"atomic", "fork"}

\* what the body of a scope raises
BodyErrors == {"RuntimeError"}

\* State.validate's ValueError("State validation failed: ...")
StateValidationError == "ValueError"

\* the values the code using s assigns
SetValues == {NumStr(3), Text}

\* self.update(snapshot) alone: the keys added since stay
Rollback_WithoutClear(h, a, snapshot) ==
    [h EXCEPT ![a].items =
        [key \in StateKeys |->
            IF snapshot[key] # Absent THEN snapshot[key] ELSE @[key]]]

\* self.clear(); self.update(snapshot)
Rollback(h, a, snapshot) == [h EXCEPT ![a].items = snapshot]

\* atomic() restoring only when its body raised
AtomicRollsBack_OnBodyErrorOnly(calm, valid) == ~calm

\* atomic(): `except Exception` around the body and the validation
AtomicRollsBack(calm, valid) == ~calm \/ ~valid

\* fork() restoring only when its body raised
ForkRollsBack_OnErrorOnly(calm) == ~calm

\* fork(): `finally`
ForkRollsBack(calm) == TRUE

\* no exception is in flight
Calm == scExc = "none"

\* with s.atomic(): / with s.fork(): the snapshot is taken, the body begins
EnterScope(kind) ==
    /\ Calm
    /\ scLast.entered < MaxScopes
    /\ scLast.op = "none"
    /\ LET r == State_smart_copy(heap, stS)
       IN  /\ heap' = IF r.ok THEN r.h ELSE heap
           /\ scopes' = IF r.ok THEN Append(scopes, Scope(kind, r.v, heap))
                        ELSE scopes
           /\ scExc' = IF r.ok THEN scExc ELSE StateValidationError
    /\ scLast' = [scLast EXCEPT !.entered = @ + 1]
    /\ UNCHANGED <<execVars, buildVars, attrVars, validatorVars, serializerVars, stS, stC, stOps, stLast>>

\* the body of the innermost scope raises
BodyRaises(e) ==
    /\ Calm
    /\ scopes # <<>>
    /\ scExc' = e
    /\ UNCHANGED <<execVars, buildVars, attrVars, validatorVars, serializerVars, heap, stS, stC, stOps, stLast,
                   scopes, scLast>>

\* history: the scope left, the exception it was left with and the one it
\* let out, and the heap at its entry, at the end of its body and after it;
\* `inner` is the same for the scope left before this one, which was nested
\* in it
Left(scope, how, raised, after) ==
    scLast' = [op |-> "exit", kind |-> scope.kind, how |-> how,
               thrown |-> scExc, raised |-> raised, entry |-> scope.entry,
               body |-> heap, after |-> after, depth |-> Len(scopes),
               entered |-> scLast.entered,
               inner |-> [op |-> scLast.op, kind |-> scLast.kind,
                          how |-> scLast.how, entry |-> scLast.entry,
                          body |-> scLast.body, after |-> scLast.after]]

\* the end of `with s.atomic():`
State_atomic_exit ==
    /\ scopes # <<>>
    /\ LET scope == scopes[Len(scopes)]
           restored == Rollback(heap, stS, scope.snapshot)
           valid == State_validate(heap, stS)
       IN  /\ scope.kind = "atomic"
           /\ scopes' = SubSeq(scopes, 1, Len(scopes) - 1)
           /\ LET after == IF AtomicRollsBack(Calm, valid.ok) THEN restored
                            ELSE IF Calm THEN valid.h ELSE heap
                  raised == IF ~Calm THEN scExc
                            ELSE IF valid.ok THEN "none"
                            ELSE StateValidationError
                  how == IF ~Calm THEN "raised"
                         ELSE IF valid.ok THEN "returned" ELSE "invalid"
              IN  /\ heap' = after
                  /\ scExc' = raised
                  /\ Left(scope, how, raised, after)
    /\ UNCHANGED <<execVars, buildVars, attrVars, validatorVars, serializerVars, stS, stC, stOps, stLast>>

\* the end of `with s.fork():`
State_fork_exit ==
    /\ scopes # <<>>
    /\ LET scope == scopes[Len(scopes)]
           restored == Rollback(heap, stS, scope.snapshot)
       IN  /\ scope.kind = "fork"
           /\ scopes' = SubSeq(scopes, 1, Len(scopes) - 1)
           /\ LET after == IF ForkRollsBack(Calm) THEN restored ELSE heap
              IN  /\ heap' = after
                  /\ scExc' = scExc
                  /\ Left(scope, IF Calm THEN "returned" ELSE "raised",
                          scExc, after)
    /\ UNCHANGED <<execVars, buildVars, attrVars, validatorVars, serializerVars, stS, stC, stOps, stLast>>

\* the exception in flight is caught: by the body of the enclosing scope,
\* or by the caller of the outermost one
Catch ==
    /\ ~Calm
    /\ scExc' = "none"
    /\ UNCHANGED <<execVars, buildVars, attrVars, validatorVars, serializerVars, heap, stS, stC, stOps, stLast,
                   scopes, scLast>>

\* s.validate(), called by the code using s
State_validate_call ==
    /\ Calm
    /\ stS # 0
    /\ stOps < MaxOps
    /\ stOps' = stOps + 1
    /\ LET r == State_validate(heap, stS)
       IN  /\ heap' = IF r.ok THEN r.h ELSE heap
           /\ scExc' = IF r.ok THEN scExc ELSE StateValidationError
           /\ stLast' = [op |-> IF r.ok THEN "validate" ELSE "validate raised",
                         target |-> "s", key |-> "", obj |-> stS,
                         before |-> heap, since |-> stLast.since + 1]
    /\ UNCHANGED <<execVars, buildVars, attrVars, validatorVars, serializerVars, stS, stC, scopes, scLast>>

\* State(data, schema=schema, shared_keys=shared_keys), as the code using s
\* writes it
StateArgs(data, schema, shared_keys) ==
    [h |-> data.h, data |-> data.v, schema |-> schema,
     shared_keys |-> shared_keys]

\* the constructor calls of the model: scalars that a schema accepts,
\* coerces or refuses, a container of its own or shared, a State as a value
ScopeInputs ==
    {StateArgs(Returned(<<>>, Items(kv, Absent)), Memory, {}) :
        kv \in {IntVal(1), NumStr(1), Text, Absent}}
        \cup {StateArgs(Returned(<<>>, Items(IntVal(1), Absent)), NoSchema, {})}
        \cup {StateArgs(Returned(Leaf(<<>>).h, Items(IntVal(1), Leaf(<<>>).v)),
                        schema, {"db"}) :
                schema \in {NoSchema, Store}}
        \cup {StateArgs(Returned(Leaf(<<>>).h, Items(Leaf(<<>>).v, Absent)),
                        NoSchema, {}),
              StateArgs(Returned(Child(<<>>, {"db"}).h,
                                 Items(Child(<<>>, {"db"}).v, Absent)),
                        NoSchema, {})}

\* s = State(data, schema=..., shared_keys=...): s is the new State, or the
\* ValueError of its validation is raised and there is no s
Construct ==
    /\ stS = 0
    /\ Calm
    /\ \E in \in ScopeInputs :
        LET r == State_init(in.h, in.data, in.schema, in.shared_keys)
            new == StateObj(in.data, in.schema, in.shared_keys)
        IN  /\ heap' = IF r.ok THEN r.h ELSE heap
            /\ stS' = IF r.ok THEN r.v.v ELSE 0
            /\ scExc' = IF r.ok THEN scExc ELSE StateValidationError
            /\ stLast' = [op |-> IF r.ok THEN "init" ELSE "init raised",
                          target |-> "s", key |-> "", obj |-> Len(in.h) + 1,
                          before |-> Alloc(in.h, new).h, since |-> 0]
    /\ UNCHANGED <<execVars, buildVars, attrVars, validatorVars, serializerVars, stC, stOps, scopes, scLast>>

InitScope ==
    /\ tree = NoOp
    /\ initial = <<>>
    /\ messages = <<>>
    /\ stack = <<>>
    /\ exc = NoException
    /\ executed = <<>>
    /\ produced = <<>>
    /\ lastExit = [frame |-> NoFrame, how |-> "nothing"]
    /\ origin = [path |-> <<>>, exc |-> NoException]
    /\ asks = <<>>
    /\ flow = Flow_init("", "")
    /\ built = Built("Flow", <<"">>, Ok(Flow_init("", "")))
    /\ calls = 0
    /\ fresh = TRUE
    /\ heap = <<>>
    /\ stS = 0
    /\ stC = 0
    /\ stOps = 0
    /\ stLast = [op |-> "none", target |-> "s", key |-> "", obj |-> 0,
                 before |-> <<>>, since |-> 0]
    /\ scopes = <<>>
    /\ scExc = "none"
    /\ scLast = NoExit(0)
    /\ NoAttributes
    /\ NoDocuments
    /\ NoConversions

\* the code using s is at a point where it changes s: s exists, nothing is
\* in flight, and a scope is open or none was entered yet
Changing ==
    /\ Calm
    /\ stS # 0
    /\ scopes # <<>> \/ scLast.entered = 0

\* s is made, changed and validated, then scopes are entered, and s is
\* changed inside them; a string that reads as a number is assigned where a
\* schema is there to coerce it
NextScope ==
    \/ Construct
    \/ \E kind \in ScopeKinds : stS # 0 /\ EnterScope(kind)
    \/ \E e \in BodyErrors : BodyRaises(e)
    \/ State_atomic_exit
    \/ State_fork_exit
    \/ Catch
    \/ Changing /\ scopes = <<>> /\ State_validate_call
    \/ /\ Changing
       /\ \E key \in StateKeys, value \in SetValues :
            /\ key = "db" => value = Text
            /\ value = NumStr(3) => heap[stS].schema = Memory
            /\ State_setattr("s", key, value)
    \/ /\ Changing
       /\ \E key \in StateKeys :
            /\ heap[stS].items[key] # Absent
            /\ State_delattr("s", key)
    \/ /\ Changing
       /\ \E key \in StateKeys, obj \in 1..Len(heap) :
            MutateNested("s", key, obj, "k", IntVal(2))

SpecScope == InitScope /\ [][NextScope]_vars

-----------------------------------------------------------------------------
(* Attribute access on a State: state.key, state.key = v, del state.key.   *)
(* Python looks an attribute up in the instance's __dict__ and in the      *)
(* class first (object.__getattribute__), and calls __getattr__ only when  *)
(* that lookup finds nothing.  The State here is a pair: `items`, the      *)
(* content of the dict, and `vars`, the instance's __dict__.               *)

\* attribute uses made of one State
MaxUses == 2

\* the names used as keys and as attribute names
Names == {"k", "items", "_k", "_schema", "_shared_keys", "_smart_copy"}

\* key.startswith("_")
StartsWithUnderscore(key) ==
    key \in {"_k", "_schema", "_shared_keys", "_smart_copy"}

\* what the class State(dict) defines, among Names: dict.items and
\* State._smart_copy
ClassAttributes == {"items", "_smart_copy"}

\* the bound method state.<name>
Method(name) == [t |-> "method", v |-> name]

AttributeError == "AttributeError"

\* an expression has a value, or raises
Value(v) == [ok |-> TRUE, v |-> v, raised |-> "none"]

Raises(e) == [ok |-> FALSE, v |-> Absent, raised |-> e]

\* no name bound: an empty class body, an empty dict
Nothing == [name \in Names |-> Absent]

\* the class State itself: it has no _class_defaults
StateClass == [name |-> "State", dict |-> Nothing, defaults |-> Nothing]

\* callable(v) or hasattr(v, "__get__"): a function of the class body
IsDescriptor(v) == v.t = "method"

\* class <name>(parent): <body>, then State.__init_subclass__(cls): the
\* plain public values of the body leave the class for _class_defaults,
\* over those of the parent; what stays is found by the attribute lookup,
\* before what the parent has
Subclass(name, parent, body) ==
    LET defaults == [k \in Names |->
                        IF /\ body[k] # Absent
                           /\ ~StartsWithUnderscore(k)
                           /\ ~IsDescriptor(body[k])
                        THEN body[k] ELSE Absent]
        kept == [k \in Names |->
                    IF defaults[k] # Absent THEN Absent ELSE body[k]]
    IN  [name |-> name,
         dict |-> [k \in Names |->
                    IF kept[k] # Absent THEN kept[k] ELSE parent.dict[k]],
         defaults |-> [k \in Names |->
                        IF defaults[k] # Absent THEN defaults[k]
                        ELSE parent.defaults[k]]]

\* cls(data, shared_keys=...), State.__init__: the items of data, and the
\* two fields __init__ binds in the instance, the schema (None) and the set
\* of keys
State_new(cls, data, shared_keys) ==
    [cls |-> cls,
     items |-> data,
     vars |-> [name \in Names |->
                IF name = "_schema" THEN [t |-> "None", v |-> 0]
                ELSE IF name = "_shared_keys"
                THEN [t |-> "set", v |-> shared_keys]
                ELSE Absent]]

\* State(data, shared_keys=...)
AttrState(data, shared_keys) == State_new(StateClass, data, shared_keys)

\* object.__getattribute__(o, key): the instance's __dict__, then the class
\* and its bases (a method is no data descriptor, so the instance comes
\* first)
object_getattribute(o, key) ==
    IF o.vars[key] # Absent THEN Value(o.vars[key])
    ELSE IF o.cls.dict[key] # Absent THEN Value(o.cls.dict[key])
    ELSE IF key \in ClassAttributes THEN Value(Method(key))
    ELSE Raises(AttributeError)

\* __getattr__ without its guard on the prefix
State_getattr_AnyKey(o, key) ==
    IF o.items[key] # Absent THEN Value(o.items[key])
    ELSE Raises(AttributeError)

\* State.__getattr__(self, key)
State_getattr(o, key) ==
    IF StartsWithUnderscore(key) THEN Raises(AttributeError)
    ELSE IF o.items[key] # Absent THEN Value(o.items[key])
    ELSE Raises(AttributeError)

\* state.key, getattr(state, key): __getattr__ is called only when the
\* normal lookup raised AttributeError
getattr(o, key) ==
    LET found == object_getattribute(o, key)
    IN  IF found.ok THEN found ELSE State_getattr(o, key)

\* the outcome of a statement: the State after it, and what it raised
Done(o) == [o |-> o, raised |-> "none"]

Aborted(o, e) == [o |-> o, raised |-> e]

\* state.key = value: State.__setattr__(self, key, value)
setattr(o, key, value) ==
    IF StartsWithUnderscore(key)
    THEN Done([o EXCEPT !.vars[key] = value])
    ELSE Done([o EXCEPT !.items[key] = value])

\* __delattr__ letting the KeyError of `del self[key]` out as it is
delattr_KeyError(o, key) ==
    IF StartsWithUnderscore(key)
    THEN IF o.vars[key] # Absent
         THEN Done([o EXCEPT !.vars[key] = Absent])
         ELSE Aborted(o, AttributeError)
    ELSE IF o.items[key] # Absent
         THEN Done([o EXCEPT !.items[key] = Absent])
         ELSE Aborted(o, "KeyError")

\* del state.key: State.__delattr__(self, key)
delattr(o, key) ==
    IF StartsWithUnderscore(key)
    THEN IF o.vars[key] # Absent
         THEN Done([o EXCEPT !.vars[key] = Absent])
         ELSE Aborted(o, AttributeError)
    ELSE IF o.items[key] # Absent
         THEN Done([o EXCEPT !.items[key] = Absent])
         ELSE Aborted(o, AttributeError)

\* state[key] = value: dict.__setitem__, any key
setitem(o, key, value) == Done([o EXCEPT !.items[key] = value])

\* the dicts a State is made from: empty, or one key of each sort
AttrData ==
    { [name \in Names |-> IF name = given THEN IntVal(1) ELSE Absent] :
        given \in {"", "k", "items", "_k", "_schema"} }

\* class Agent(State): k: int = 0, with a private constant and a method of
\* its own
Agent ==
    Subclass("Agent", StateClass,
             [Nothing EXCEPT !["k"] = IntVal(0), !["_k"] = IntVal(7),
                             !["items"] = Method("items")])

\* the classes of the States made: State, a subclass with a default, one
\* that inherits it, one that redeclares it, one that only annotates
AttrClasses ==
    {StateClass,
     Agent,
     Subclass("Helper", Agent, Nothing),
     Subclass("Expert", Agent, [Nothing EXCEPT !["k"] = IntVal(5)]),
     Subclass("Plain", StateClass, Nothing)}

\* one more use of atObj: what was done, on what, and the outcome
Used(op, key, value, out) ==
    /\ atLast.uses < MaxUses
    /\ atLast' = [op |-> op, key |-> key, value |-> value, before |-> atObj,
                  out |-> out, uses |-> atLast.uses + 1,
                  given |-> atLast.given]
    /\ UNCHANGED <<execVars, buildVars, stateVars, validatorVars, serializerVars>>

\* value = state.key
ReadAttribute(key) ==
    /\ Used("get", key, Absent, getattr(atObj, key))
    /\ UNCHANGED atObj

\* state.key = value
AssignAttribute(key, value) ==
    LET r == setattr(atObj, key, value)
    IN  /\ atObj' = r.o
        /\ Used("set", key, value, r)

\* del state.key
DeleteAttribute(key) ==
    LET r == delattr(atObj, key)
    IN  /\ atObj' = r.o
        /\ Used("del", key, Absent, r)

\* state[key] = value
AssignItem(key, value) ==
    LET r == setitem(atObj, key, value)
    IN  /\ atObj' = r.o
        /\ Used("setitem", key, value, r)

InitAttr ==
    /\ tree = NoOp
    /\ initial = <<>>
    /\ messages = <<>>
    /\ stack = <<>>
    /\ exc = NoException
    /\ executed = <<>>
    /\ produced = <<>>
    /\ lastExit = [frame |-> NoFrame, how |-> "nothing"]
    /\ origin = [path |-> <<>>, exc |-> NoException]
    /\ asks = <<>>
    /\ flow = Flow_init("", "")
    /\ built = Built("Flow", <<"">>, Ok(Flow_init("", "")))
    /\ calls = 0
    /\ fresh = TRUE
    /\ NoStates
    /\ NoDocuments
    /\ NoConversions
    /\ \E cls \in AttrClasses, data \in AttrData, shared_keys \in {{}, {"k"}} :
        /\ cls # StateClass => shared_keys = {}
        /\ atObj = State_new(cls, data, shared_keys)
        /\ atLast = [op |-> "none", key |-> "", value |-> Absent,
                     before |-> atObj, out |-> Value(Absent), uses |-> 0,
                     given |-> data]

NextAttr ==
    \/ \E key \in Names : ReadAttribute(key)
    \/ \E key \in Names : AssignAttribute(key, IntVal(2))
    \/ \E key \in Names : DeleteAttribute(key)
    \/ \E key \in Names : AssignItem(key, IntVal(3))

SpecAttr == InitAttr /\ [][NextAttr]_vars

-----------------------------------------------------------------------------
(* The validator of flow documents (src/lingo/flow_validator.py).          *)
(* A parsed YAML value is [t, v]: a string, an integer, a list (a          *)
(* sequence of values) or a dict (a function from its keys to values);     *)
(* isinstance(x, str) is x.t = "str".                                      *)
(* A string the validator builds is the sequence of the pieces of its      *)
(* f-string; a diagnostic is such a string, a context too.                 *)
(* A call that raises gives the diagnostics appended so far, followed by   *)
(* the exception.                                                          *)

Str(s) == [t |-> "str", v |-> s]

List(seq) == [t |-> "list", v |-> seq]

Map(f) == [t |-> "dict", v |-> f]

\* None: what yaml.safe_load gives for an empty text or an empty value
None == [t |-> "None", v |-> 0]

\* `key in x` and `for e in x` raise TypeError unless x is one of these
Iterable(x) == x.t \in {"dict", "list", "str"}

\* key in x, for a string key and an iterable x: a key of the dict, a member
\* of the list, a part of the string (no string of the model has a key as a
\* proper part)
Has(x, key) ==
    CASE x.t = "dict" -> key \in DOMAIN x.v
      [] x.t = "list" -> \E i \in 1..Len(x.v) : x.v[i] = Str(key)
      [] x.t = "str" -> x.v = key

\* `not x`
Falsy(x) ==
    \/ x.t = "None"
    \/ x.t = "int" /\ x.v = 0
    \/ x.t = "str" /\ x.v = ""
    \/ x.t = "list" /\ x.v = <<>>
    \/ x.t = "dict" /\ DOMAIN x.v = {}

\* what `for e in x` goes through: the members of a list, the characters of
\* a string (the strings iterated in the model have one), the keys of a dict
\* (a, then b)
Elements(x) ==
    CASE x.t = "list" -> x.v
      [] x.t = "str" -> <<x>>
      [] x.t = "dict" ->
            [j \in 1..Len(SelectSeq(<<"a", "b">>,
                                    LAMBDA key : key \in DOMAIN x.v)) |->
                Str(SelectSeq(<<"a", "b">>,
                              LAMBDA key : key \in DOMAIN x.v)[j])]

\* the exceptions a call of the validator can end with
TypeError == <<"TypeError">>

NoSuchAttribute == <<"AttributeError">>

Exceptions == {TypeError, NoSuchAttribute}

\* the exception the call that gave `errors` ended with, or "none"
RaisedBy(errors) ==
    IF \A i \in 1..Len(errors) : errors[i] \notin Exceptions THEN "none"
    ELSE errors[CHOOSE i \in 1..Len(errors) :
                    /\ errors[i] \in Exceptions
                    /\ \A j \in 1..(i - 1) : errors[j] \notin Exceptions][1]

\* str(i) of a list index
ToStr(i) == <<"0", "1", "2", "3", "4">>[i + 1]

\* errors.append(e) under a condition
If(cond, e) == IF cond THEN <<e>> ELSE <<>>

RECURSIVE Flatten(_)
\* errors.extend(...) over the rounds of a loop, in order
Flatten(lists) ==
    IF lists = <<>> THEN <<>> ELSE Head(lists) \o Flatten(Tail(lists))

\* the strings of the sets the validator iterates over, in alphabetical order
Alphabet ==
    <<"assistant", "choices", "class", "description", "flows",
      "instructions", "message", "model", "module", "name", "nodes",
      "on_false", "on_true", "system", "target_module", "target_name",
      "tool", "tools", "user">>

\* `for x in set`: the order a Python set of strings is iterated in depends
\* on the hash seed of the process; two orders stand for all of them
Iterate(order, set) ==
    SelectSeq(IF order = "forward" THEN Alphabet
              ELSE [i \in 1..Len(Alphabet) |->
                        Alphabet[Len(Alphabet) + 1 - i]],
              LAMBDA x : x \in set)

RECURSIVE Join(_)
\* ", ".join(strings)
Join(strings) ==
    IF strings = <<>> THEN <<>>
    ELSE IF Len(strings) = 1 THEN strings
    ELSE <<Head(strings), ", ">> \o Join(Tail(strings))

VALID_NODE_TYPES ==
    {"append", "prepend", "reply", "invoke", "noop",
     "create", "sequence", "decide", "choose", "route"}

NODE_REQUIREMENTS ==
    [type \in VALID_NODE_TYPES |->
        CASE type \in {"append", "prepend"} -> {"message"}
          [] type = "reply" -> {"instructions"}
          [] type = "invoke" -> {"tools"}
          [] type = "create" -> {"model", "instructions"}
          [] type = "sequence" -> {"nodes"}
          [] type = "decide" -> {"on_true", "on_false", "instructions"}
          [] type = "choose" -> {"choices", "instructions"}
          [] type = "route" -> {"flows"}
          [] type = "noop" -> {}]

\* `"name" not in data` raises TypeError for a data that is no container;
\* data["name"] and data["nodes"] raise it for a list or a string, and
\* data.get raises AttributeError for them
validate_top_level(data) ==
    IF ~Iterable(data) THEN <<TypeError>>
    ELSE
      If(~Has(data, "name"), <<"Missing required field: 'name'">>)
      \o If(~Has(data, "nodes"), <<"Missing required field: 'nodes'">>)
      \o (IF ~Has(data, "name") THEN <<>>
          ELSE IF data.t # "dict" THEN <<TypeError>>
          ELSE If(data.v["name"].t # "str",
                  <<"Field 'name' must be a string">>))
      \o (IF ~Has(data, "description") THEN <<>>
          ELSE IF data.t # "dict" THEN <<NoSuchAttribute>>
          ELSE If(data.v["description"].t # "str",
                  <<"Field 'description' must be a string if present">>))
      \o (IF ~Has(data, "nodes") THEN <<>>
          ELSE IF data.t # "dict" THEN <<TypeError>>
          ELSE If(data.v["nodes"].t # "list",
                  <<"Field 'nodes' must be a list">>))

validate_message(order, message, context) ==
    IF message.t # "dict"
    THEN <<context \o <<": 'message' must be a dictionary">>>>
    ELSE
      If(~Has(message, "role"),
         context \o <<": Message missing 'role' field">>)
      \o If(~Has(message, "content"),
            context \o <<": Message missing 'content' field">>)
      \o (IF Has(message, "role")
          THEN If(message.v["role"].v
                    \notin {"system", "user", "assistant", "tool"},
                  context \o <<": Invalid role '", message.v["role"].v,
                               "'. Must be one of: ">>
                  \o Join(Iterate(order,
                        {"system", "user", "assistant", "tool"})))
          ELSE <<>>)
      \o (IF Has(message, "content") /\ message.v["content"].t = "dict"
          THEN LET content == message.v["content"]
               IN  IF ~Has(content, "type")
                   THEN <<context
                          \o <<": Message content missing 'type' field">>>>
                   ELSE If(content.v["type"].v \notin
                             {"string", "dict", "list", "pydantic_model"},
                           context \o <<": Invalid content type '",
                                        content.v["type"].v, "'">>)
          ELSE <<>>)

\* one round of the loop of _validate_instructions
validate_instruction(order, inst, i, context) ==
    IF inst.t = "dict"
    THEN IF ~Has(inst, "type")
         THEN <<context \o <<": Instruction ", ToStr(i),
                             " missing 'type' field">>>>
         ELSE IF inst.v["type"].v \notin {"string", "message"}
         THEN <<context \o <<": Instruction ", ToStr(i),
                             " has invalid type '", inst.v["type"].v, "'">>>>
         ELSE IF inst.v["type"].v = "message"
         THEN validate_message(order,
                IF Has(inst, "value") THEN inst.v["value"] ELSE Map(<<>>),
                context \o <<" instruction ", ToStr(i)>>)
         ELSE <<>>
    ELSE If(inst.t # "str",
            context \o <<": Instruction ", ToStr(i),
                         " must be string or dictionary">>)

validate_instructions(order, instructions, context) ==
    IF instructions.t # "list"
    THEN <<context \o <<": 'instructions' must be a list">>>>
    ELSE
      If(instructions.v = <<>>,
         context \o <<": 'instructions' list cannot be empty">>)
      \o Flatten([i \in 1..Len(instructions.v) |->
            validate_instruction(order, instructions.v[i], i - 1, context)])

\* the missing ones among the fields a tool of some type requires
validate_tool_fields(order, tool, required, prefix) ==
    LET fields == Iterate(order, required)
    IN  Flatten([j \in 1..Len(fields) |->
            If(~Has(tool, fields[j]),
               prefix \o <<"Missing '", fields[j], "' field">>)])

\* one round of the loop of _validate_tools
validate_tool(order, tool, i, context) ==
    IF tool.t # "dict"
    THEN <<context \o <<": Tool ", ToStr(i), " must be a dictionary">>>>
    ELSE IF ~Has(tool, "type")
    THEN <<context \o <<": Tool ", ToStr(i), " missing 'type' field">>>>
    ELSE IF tool.v["type"].v
            \notin {"registered", "delegate_tool", "custom_tool"}
    THEN <<context \o <<": Tool ", ToStr(i), " has invalid type '",
                        tool.v["type"].v, "'">>>>
    ELSE IF tool.v["type"].v = "registered"
    THEN If(~Has(tool, "name"),
            context \o <<": Tool ", ToStr(i),
                         " (registered): Missing 'name' field">>)
    ELSE IF tool.v["type"].v = "delegate_tool"
    THEN validate_tool_fields(order, tool,
            {"name", "description", "target_module", "target_name"},
            context \o <<": Tool ", ToStr(i), " (delegate_tool): ">>)
    ELSE validate_tool_fields(order, tool, {"name", "description", "class"},
            context \o <<": Tool ", ToStr(i), " (custom_tool): ">>)

validate_tools(order, tools, context) ==
    IF tools.t # "list"
    THEN <<context \o <<": 'tools' must be a list">>>>
    ELSE
      If(tools.v = <<>>, context \o <<": 'tools' list cannot be empty">>)
      \o Flatten([i \in 1..Len(tools.v) |->
            validate_tool(order, tools.v[i], i - 1, context)])

validate_model(order, model, context) ==
    IF model.t # "dict"
    THEN <<context \o <<": 'model' must be a dictionary">>>>
    ELSE LET fields == Iterate(order, {"module", "name"})
         IN  Flatten([j \in 1..Len(fields) |->
                If(~Has(model, fields[j]),
                   context \o <<": Model missing '", fields[j],
                                "' field">>)])

\* errors.append(f"{prefix}: {error}") for every error of a call (that
\* returned: an exception of the call is the caller's)
Prefixed(prefix, errors) ==
    [j \in 1..Len(errors) |->
        IF errors[j] \in Exceptions THEN errors[j]
        ELSE prefix \o <<": ">> \o errors[j]]

RECURSIVE validate_single_node(_, _, _)
RECURSIVE validate_nodes(_, _)
RECURSIVE validate_nodes_in_sequence(_, _, _)
RECURSIVE validate_choices(_, _, _)
RECURSIVE validate_flows(_, _, _)

\* the loop over the required fields, leaving at the first missing one
missing_fields_FirstOnly(order, node, index) ==
    LET node_type == node.v["type"].v
        fields == SelectSeq(Iterate(order, NODE_REQUIREMENTS[node_type]),
                            LAMBDA field : ~Has(node, field))
    IN  IF fields = <<>> THEN <<>>
        ELSE << <<"Node ">> \o index
                \o <<" (", node_type, "): Missing required field '",
                     fields[1], "'">> >>

\* the loop over the required fields of a node of a valid type
missing_fields(order, node, index) ==
    LET node_type == node.v["type"].v
        fields == Iterate(order, NODE_REQUIREMENTS[node_type])
    IN  Flatten([j \in 1..Len(fields) |->
            If(~Has(node, fields[j]),
               <<"Node ">> \o index
               \o <<" (", node_type, "): Missing required field '",
                    fields[j], "'">>)])

\* the validation of the field `field` of a node, when it is there
validate_field(order, node, index, field) ==
    LET node_type == node.v["type"].v
        context == <<"Node ">> \o index \o <<" (", node_type, ")">>
    IN  IF ~Has(node, field) THEN <<>>
        ELSE CASE field = "message" ->
                    validate_message(order, node.v[field], context)
               [] field = "instructions" ->
                    validate_instructions(order, node.v[field], context)
               [] field = "tools" ->
                    validate_tools(order, node.v[field], context)
               [] field = "model" ->
                    validate_model(order, node.v[field], context)
               [] field = "nodes" ->
                    validate_nodes_in_sequence(order, node.v[field], context)
               [] field \in {"on_true", "on_false"} ->
                    validate_single_node(order, node.v[field],
                                         index \o <<".", field>>)
               [] field = "choices" ->
                    validate_choices(order, node.v[field], context)
               [] field = "flows" ->
                    validate_flows(order, node.v[field], context)

\* the fields the node-specific branch of a type validates, in its order
SpecificFields(node_type) ==
    CASE node_type \in {"append", "prepend"} -> <<"message">>
      [] node_type = "reply" -> <<"instructions">>
      [] node_type = "invoke" -> <<"tools">>
      [] node_type = "create" -> <<"model", "instructions">>
      [] node_type = "sequence" -> <<"nodes">>
      [] node_type = "decide" -> <<"on_true", "on_false", "instructions">>
      [] node_type = "choose" -> <<"choices", "instructions">>
      [] node_type = "route" -> <<"flows">>
      [] OTHER -> <<>>

\* `"type" not in node` raises TypeError for a node that is no container,
\* node["type"] for a list or a string, and `node_type not in
\* VALID_NODE_TYPES` for a type that is a list or a dict (unhashable)
validate_single_node(order, node, index) ==
    IF ~Iterable(node) THEN <<TypeError>>
    ELSE IF ~Has(node, "type")
    THEN << <<"Node ">> \o index \o <<": Missing 'type' field">> >>
    ELSE IF node.t # "dict" \/ node.v["type"].t \in {"list", "dict"}
    THEN <<TypeError>>
    ELSE LET node_type == node.v["type"].v
         IN  IF node_type \notin VALID_NODE_TYPES
             THEN << <<"Node ">> \o index
                     \o <<": Invalid type '", node_type,
                          "'. Must be one of: ">>
                     \o Join(<<"append", "choose", "create", "decide",
                               "invoke", "noop", "prepend", "reply",
                               "route", "sequence">>) >>
             ELSE missing_fields(order, node, index)
                  \o Flatten([j \in 1..Len(SpecificFields(node_type)) |->
                        validate_field(order, node, index,
                                       SpecificFields(node_type)[j])])

\* _validate_nodes taking an empty list as it comes
validate_nodes_EmptyAllowed(order, nodes) ==
    IF ~Iterable(nodes) THEN <<TypeError>>
    ELSE Flatten([i \in 1..Len(Elements(nodes)) |->
            validate_single_node(order, Elements(nodes)[i],
                                 <<ToStr(i - 1)>>)])

\* _validate_nodes(nodes); a sub-flow of a route gives it whatever it has
\* under "nodes"
validate_nodes(order, nodes) ==
    IF Falsy(nodes) THEN << <<"'nodes' list cannot be empty">> >>
    ELSE IF ~Iterable(nodes) THEN <<TypeError>>
    ELSE Flatten([i \in 1..Len(Elements(nodes)) |->
            validate_single_node(order, Elements(nodes)[i],
                                 <<ToStr(i - 1)>>)])

validate_nodes_in_sequence(order, nodes, context) ==
    IF nodes.t # "list"
    THEN <<context \o <<": 'nodes' must be a list">>>>
    ELSE
      If(nodes.v = <<>>,
         context \o <<": Sequence 'nodes' list cannot be empty">>)
      \o Flatten([i \in 1..Len(nodes.v) |->
            validate_single_node(order, nodes.v[i],
                context \o <<".node[", ToStr(i - 1), "]">>)])

validate_choices(order, choices, context) ==
    IF choices.t # "dict"
    THEN <<context \o <<": 'choices' must be a dictionary">>>>
    ELSE
      \* the keys come in the order of the document: a, then b
      LET keys == SelectSeq(<<"a", "b">>, LAMBDA key : Has(choices, key))
      IN  If(keys = <<>>,
             context \o <<": 'choices' dictionary cannot be empty">>)
          \o Flatten([j \in 1..Len(keys) |->
                IF choices.v[keys[j]].t # "dict"
                THEN <<context \o <<": Choice '", keys[j],
                                    "' value must be a dictionary">>>>
                ELSE validate_single_node(order, choices.v[keys[j]],
                        context \o <<".choice['", keys[j], "']">>)])

validate_flows(order, flows, context) ==
    IF flows.t # "list"
    THEN <<context \o <<": 'flows' must be a list">>>>
    ELSE
      If(Len(flows.v) < 2,
         context \o <<": Route needs at least 2 flows, got ",
                      ToStr(Len(flows.v))>>)
      \o Flatten([i \in 1..Len(flows.v) |->
            LET sub == flows.v[i]
                prefix == context \o <<" flow ", ToStr(i - 1)>>
            IN  IF sub.t # "dict"
                THEN <<context \o <<": Flow ", ToStr(i - 1),
                                    " must be a dictionary">>>>
                ELSE Prefixed(prefix, validate_top_level(sub))
                     \o (IF Has(sub, "nodes")
                         THEN Prefixed(prefix,
                                validate_nodes(order, sub.v["nodes"]))
                         ELSE <<>>)])

\* FlowValidator.validate_yaml(yaml_data)
validate_yaml(order, yaml_data) ==
    LET errors == validate_top_level(yaml_data)
    IN  IF RaisedBy(errors) # "none" THEN errors
        ELSE IF Has(yaml_data, "nodes") /\ errors = <<>>
        THEN errors \o validate_nodes(order, yaml_data.v["nodes"])
        ELSE errors

\* the documents validated: lists have up to MaxNodes members
MaxNodes == 2

\* the lists of at most n members of a set
ListsOf(set, n) == UNION { [1..m -> set] : m \in 0..n }

\* a node document of a type, with the fields `fields` (a function)
NodeDoc(type, fields) ==
    Map([key \in {"type"} \cup DOMAIN fields |->
            IF key = "type" THEN Str(type) ELSE fields[key]])

\* the node documents nested in others: a good one, one with a field
\* missing, one with a mistyped type
Kids ==
    {NodeDoc("noop", <<>>), NodeDoc("reply", <<>>),
     NodeDoc("replay", [instructions |-> List(<<Str("Be brief")>>)])}

\* the values a field of a node is given: one the validator accepts, and
\* one it does not (a message with a role that is none and no content, an
\* instruction that is such a message, a custom tool with no description
\* and no class, a model with no name; nested nodes with defects; a flow
\* with no name and a bad node, a flow with no node)
FieldValues(field) ==
    CASE field = "message" ->
            {Map([role |-> Str("user"), content |-> Str("Hello")]),
             Map([role |-> Str("robot")])}
      [] field = "instructions" ->
            {List(<<Str("Be brief")>>),
             List(<<Map([type |-> Str("message"),
                         value |-> Map([role |-> Str("robot")])])>>)}
      [] field = "tools" ->
            {List(<<Map([type |-> Str("registered"),
                         name |-> Str("search")])>>),
             List(<<Map([type |-> Str("custom_tool"),
                         name |-> Str("search")])>>)}
      [] field = "model" ->
            {Map([module |-> Str("app.models"), name |-> Str("User")]),
             Map([module |-> Str("app.models")])}
      [] field = "nodes" -> { List(l) : l \in ListsOf(Kids, MaxNodes) }
      [] field \in {"on_true", "on_false"} ->
            {NodeDoc("noop", <<>>), NodeDoc("reply", <<>>)}
      [] field = "choices" ->
            {Map(<<>>)}
            \cup { Map([key \in {"a"} |-> kid]) : kid \in Kids }
            \cup { Map([key \in {"a", "b"} |->
                        IF key = "a" THEN kid ELSE NodeDoc("noop", <<>>)]) :
                    kid \in Kids }
      [] field = "flows" ->
            { List(l) :
                l \in ListsOf(
                    {Map([name |-> Str("Sub"),
                          nodes |-> List(<<NodeDoc("noop", <<>>)>>)]),
                     Map([nodes |-> List(<<NodeDoc("reply", <<>>)>>)]),
                     Map([name |-> Str("Sub"), nodes |-> List(<<>>)])},
                    MaxNodes) }

\* the types that are none, as written by mistake
MistypedTypes == {"replay", "sequnce"}

\* the node documents: of every type, with every subset of its required
\* fields, each given one of its values; with no type; with a type that
\* is none
NodeDocs ==
    UNION { UNION { { NodeDoc(type, fields) :
                        fields \in
                            { f \in [present -> UNION { FieldValues(field) :
                                                    field \in present }] :
                                \A field \in present :
                                    f[field] \in FieldValues(field) } } :
                        present \in SUBSET NODE_REQUIREMENTS[type] } :
                type \in VALID_NODE_TYPES }
    \cup { Map([instructions |-> List(<<Str("Be brief")>>)]) }
    \cup { NodeDoc(type, [instructions |-> List(<<Str("Be brief")>>)]) :
            type \in MistypedTypes }

\* the documents given to the validator: name, description and nodes are
\* there or not, of the right type or not; the nodes are a list of one
\* node, or of some of the nested ones
FlowDocuments ==
    { Map([key \in { k \in {"name", "description", "nodes"} :
                        fields[k].t # "absent" } |-> fields[key]]) :
        fields \in
            [name : {Absent, Str("Test"), IntVal(5)},
             description : {Absent, Str("A test"), IntVal(7)},
             nodes : {Absent, Str("reply")}
                     \cup { List(<<node>>) : node \in NodeDocs }
                     \cup { List(l) : l \in ListsOf(Kids, MaxNodes) }] }

\* yaml.safe_load(yaml_str) raised yaml.YAMLError
YAMLError == [t |-> "YAMLError", v |-> 0]

\* a sub-flow of a route, with what it has under "nodes"
SubFlow(nodes) == Map([name |-> Str("Sub"), nodes |-> nodes])

\* what is found where a node is expected, in texts written by hand: an
\* empty value, a number, a word, a list, a node whose type is a list, and
\* nodes with such values where they expect nodes, flows or choices
OddNodes ==
    {None, IntVal(5), Str("x"), Str("type"), List(<<>>),
     List(<<Str("type")>>),
     Map([type |-> List(<<Str("reply")>>)]),
     NodeDoc("sequence", [nodes |-> IntVal(5)]),
     NodeDoc("sequence", [nodes |-> List(<<IntVal(5)>>)]),
     NodeDoc("sequence", [nodes |-> List(<<Str("x")>>)]),
     NodeDoc("decide", [on_true |-> IntVal(5),
                        on_false |-> NodeDoc("noop", <<>>),
                        instructions |-> List(<<Str("Be brief")>>)]),
     NodeDoc("decide", [on_true |-> NodeDoc("noop", <<>>),
                        on_false |-> Str("x"),
                        instructions |-> List(<<Str("Be brief")>>)]),
     NodeDoc("choose", [choices |-> IntVal(5),
                        instructions |-> List(<<Str("Be brief")>>)]),
     NodeDoc("choose", [choices |-> Map([a |-> IntVal(5)]),
                        instructions |-> List(<<Str("Be brief")>>)]),
     NodeDoc("route", [flows |-> IntVal(5)]),
     NodeDoc("route", [flows |-> None])}
    \cup { NodeDoc("route",
                   [flows |-> List(<<sub, SubFlow(List(<<NodeDoc("noop",
                                                                 <<>>)>>))>>)]) :
            sub \in {IntVal(5), None, Str("name")}
                    \cup { SubFlow(nodes) :
                            nodes \in {IntVal(5), None, Str("x"), IntVal(0),
                                       Map([a |-> IntVal(1)]),
                                       List(<<IntVal(5)>>)} } }

\* what yaml.safe_load gives for the texts of the model: an error, nothing
\* (an empty text), a top level that is no mapping, a document with a value
\* that is no mapping where a node is expected, or one of the documents
\* above
SafeLoaded ==
    {YAMLError, None, IntVal(5), Str("abc"), Str("name"), List(<<>>),
     List(<<Str("name"), Str("nodes")>>), List(<<Str("description")>>)}
    \cup { Map([name |-> Str("Test"), nodes |-> List(<<node>>)]) :
            node \in OddNodes }
    \cup FlowDocuments

\* FlowSerializer.validate_yaml(yaml_str): True, or the ValidationError of
\* a text that is no YAML, or the ValidationError that holds the
\* diagnostics; an exception of the validator goes through
FlowSerializer_validate_yaml ==
    /\ vaStep = "text"
    /\ LET errors == IF vaData = YAMLError THEN <<>>
                     ELSE validate_yaml(vaOrder, vaData)
           raised == RaisedBy(errors)
       IN  /\ vaStep' =
                CASE vaData = YAMLError -> "raised ValidationError"
                  [] vaData # YAMLError /\ raised = "TypeError" ->
                        "raised TypeError"
                  [] vaData # YAMLError /\ raised = "AttributeError" ->
                        "raised AttributeError"
                  [] vaData # YAMLError /\ raised = "none"
                        /\ errors # <<>> -> "raised ValidationError"
                  [] OTHER -> "returned True"
           /\ vaErrors' = IF raised = "none" THEN errors ELSE <<>>
    /\ UNCHANGED <<vaData, vaOrder, execVars, buildVars, stateVars, attrVars,
                   serializerVars>>

\* errors = FlowValidator().validate_yaml(yaml_data)
ValidateDocument ==
    /\ vaStep = "document"
    /\ vaErrors' = validate_yaml(vaOrder, vaData)
    /\ vaStep' = "validated document"
    /\ UNCHANGED <<vaData, vaOrder, execVars, buildVars, stateVars, attrVars,
                   serializerVars>>

\* errors = FlowValidator()._validate_single_node(node, 0)
ValidateNode ==
    /\ vaStep = "node"
    /\ vaErrors' = validate_single_node(vaOrder, vaData, <<"0">>)
    /\ vaStep' = "validated node"
    /\ UNCHANGED <<vaData, vaOrder, execVars, buildVars, stateVars, attrVars,
                   serializerVars>>

InitValidate ==
    /\ tree = NoOp
    /\ initial = <<>>
    /\ messages = <<>>
    /\ stack = <<>>
    /\ exc = NoException
    /\ executed = <<>>
    /\ produced = <<>>
    /\ lastExit = [frame |-> NoFrame, how |-> "nothing"]
    /\ origin = [path |-> <<>>, exc |-> NoException]
    /\ asks = <<>>
    /\ flow = Flow_init("", "")
    /\ built = Built("Flow", <<"">>, Ok(Flow_init("", "")))
    /\ calls = 0
    /\ fresh = TRUE
    /\ NoStates
    /\ NoAttributes
    /\ NoConversions
    /\ vaOrder \in {"forward", "backward"}
    /\ \/ vaStep = "document" /\ vaData \in FlowDocuments
       \/ vaStep = "node" /\ vaData \in NodeDocs
       \/ vaStep = "text" /\ vaData \in SafeLoaded
    /\ vaErrors = <<>>

NextValidate ==
    \/ ValidateDocument
    \/ ValidateNode
    \/ FlowSerializer_validate_yaml

SpecValidate == InitValidate /\ [][NextValidate]_vars

-----------------------------------------------------------------------------
(* FlowSerializer (src/lingo/serializer.py): trees to documents and back *)

\* The outcome of a call: the value it returned, or the exception it raised
\* (a ValidationError with its summary and its diagnostics), and the number
\* of Nodes and Flows it constructed and of tool, model and class references
\* it looked up before it returned or raised.
Got(v, steps) ==
    [ok |-> TRUE, v |-> v, raised |-> "none", summary |-> "",
     errors |-> <<>>, steps |-> steps]

Fails(e, steps) ==
    [ok |-> FALSE, v |-> None, raised |-> e, summary |-> "",
     errors |-> <<>>, steps |-> steps]

\* raise ValidationError(message, errors)
Rejected(message, errors) ==
    [Fails("ValidationError", 0) EXCEPT !.summary = message,
                                        !.errors = errors]

\* `f(g(...))`: the call F on what r returned, unless r raised
Then(r, F(_)) ==
    IF ~r.ok THEN r
    ELSE LET s == F(r.v) IN [s EXCEPT !.steps = @ + r.steps]

\* the first of the outcomes that is an exception (0: none is)
FirstFailure(rs) ==
    IF \A i \in 1..Len(rs) : rs[i].ok THEN 0
    ELSE CHOOSE i \in 1..Len(rs) :
            ~rs[i].ok /\ \A j \in 1..(i - 1) : rs[j].ok

RECURSIVE StepsOf(_, _)
StepsOf(rs, k) == IF k = 0 THEN 0 ELSE StepsOf(rs, k - 1) + rs[k].steps

\* `[f(x) for x in xs]`, from the outcomes of the calls: the list of what
\* they returned, or the first exception, which ends the loop
Gather(rs) ==
    LET k == FirstFailure(rs)
    IN  IF k = 0
        THEN Got([i \in 1..Len(rs) |-> rs[i].v], StepsOf(rs, Len(rs)))
        ELSE [rs[k] EXCEPT !.steps = StepsOf(rs, k)]

\* `[F(x) for x in xs]`
Each(xs, F(_)) ==
    IF ~Iterable(xs) THEN Fails("TypeError", 0)
    ELSE Gather([i \in 1..Len(Elements(xs)) |-> F(Elements(xs)[i])])

\* x[key], for a string key
Item(x, key) ==
    IF x.t # "dict" THEN Fails("TypeError", 0)
    ELSE IF ~Has(x, key) THEN Fails("KeyError", 0)
    ELSE Got(x.v[key], 0)

\* x.get(key, default): only a dict has a method `get`
GetOr(x, key, default) ==
    IF x.t # "dict" THEN Fails("AttributeError", 0)
    ELSE Got(IF Has(x, key) THEN x.v[key] ELSE default, 0)

\* x == "s"
IsStr(x, s) == x.t = "str" /\ x.v = s

\* The node classes serializer.py imports from lingo.flow that flow.py does
\* not define (it defines AddSystemMessage, AddUserMessage and
\* AddAssistantMessage in their place), and the tool classes of lingo.tools.
AppendNode(msg) == [kind |-> "Append", msg |-> msg]

PrependNode(msg) == [kind |-> "Prepend", msg |-> msg]

FunctionalNode == [kind |-> "FunctionalNode"]

\* a tool of a class of its own; ref is <<module, name>> of the class
Tool(name, description, ref) ==
    [kind |-> "Tool", name |-> name, description |-> description,
     ref |-> ref]

\* a tool that calls a function; ref is <<module, name>> of the function
DelegateTool(name, description, target) ==
    [kind |-> "DelegateTool", name |-> name, description |-> description,
     ref |-> target]

\* an instance of a pydantic model class, with the fields model_dump() gives
Instance(cls, data) == [t |-> "object", v |-> [cls |-> cls, data |-> data]]

\* The dotted paths of the model, each with the <<module, name>> that
\* path.rsplit('.', 1) splits it into and that f"{module}.{name}" makes
\* it from.
Paths ==
    {<<"app.tools.SearchTool", <<"app.tools", "SearchTool">>>>,
     <<"local.LocalTool", <<"local", "LocalTool">>>>,
     <<"app.models.User", <<"app.models", "User">>>>,
     <<"local.Draft", <<"local", "Draft">>>>}

\* f"{module}.{name}"
Format(ref) == (CHOOSE p \in Paths : p[2] = ref)[1]

\* class_path.rsplit('.', 1)
Rsplit(class_path) == (CHOOSE p \in Paths : p[1] = class_path)[2]

\* what importlib.import_module and getattr find in the process that
\* deserializes: the classes and functions of the installed package `app`,
\* none of the module `local` of the process that serialized
Importable ==
    {<<"app.tools", "SearchTool">>, <<"app.tools", "lookup">>,
     <<"app.models", "User">>}

\* isinstance(instruction, Message)
IsMessage(x) == "role" \in DOMAIN x

\* str(content)
PyStr(x) ==
    CASE x.t = "str" -> x.v
      [] x.t = "int" -> ToStr(x.v)
      [] x.t = "None" -> "None"

serialize_message(message) ==
    LET content == message.content
    IN  Map([role |-> message.role,
             content |->
               CASE content.t = "object" ->
                      Map([type |-> Str("pydantic_model"),
                           model |-> Str(Format(content.v.cls)),
                           data |-> content.v.data])
                 [] content.t = "dict" ->
                      Map([type |-> Str("dict"), value |-> content])
                 [] content.t = "list" ->
                      Map([type |-> Str("list"), value |-> content])
                 [] OTHER ->
                      Map([type |-> Str("string"),
                           value |-> Str(PyStr(content))])])

serialize_instruction(instruction) ==
    IF IsMessage(instruction)
    THEN Map([type |-> Str("message"),
              value |-> serialize_message(instruction)])
    ELSE Map([type |-> Str("string"), value |-> instruction])

\* registry: the tools registered, each under its name
serialize_tool(registry, tool) ==
    IF tool \in registry
    THEN Map([type |-> Str("registered"), name |-> tool.name])
    ELSE IF tool.kind = "DelegateTool"
    THEN Map([type |-> Str("delegate_tool"), name |-> tool.name,
              description |-> tool.description,
              target_module |-> Str(tool.ref[1]),
              target_name |-> Str(tool.ref[2]),
              is_async |-> [t |-> "bool", v |-> FALSE]])
    ELSE Map([type |-> Str("custom_tool"), name |-> tool.name,
              description |-> tool.description,
              class |-> Str(Format(tool.ref))])

serialize_model(model_class) ==
    Map([module |-> Str(model_class[1]), name |-> Str(model_class[2]),
         schema |-> Map([title |-> Str(model_class[2])])])

\* `[self._serialize_instruction(inst) for inst in node.instructions]`
serialize_instructions(instructions) ==
    List([i \in 1..Len(instructions) |->
            serialize_instruction(instructions[i])])

RECURSIVE serialize_node(_, _)
RECURSIVE serialize_flow(_, _)
\* The chain of isinstance tests, in its order: a Flow is a Sequence, and no
\* test comes before that of Sequence for it.  `node.nodes` of a Flow that
\* was given none raises AttributeError.
serialize_node(registry, node) ==
    CASE node.kind = "Append" ->
            Got(Map([type |-> Str("append"),
                     message |-> serialize_message(node.msg)]), 0)
      [] node.kind = "Prepend" ->
            Got(Map([type |-> Str("prepend"),
                     message |-> serialize_message(node.msg)]), 0)
      [] node.kind = "Reply" ->
            Got(Map([type |-> Str("reply"),
                     instructions |->
                        serialize_instructions(node.instructions)]), 0)
      [] node.kind = "Invoke" ->
            Got(Map([type |-> Str("invoke"),
                     tools |-> List([i \in 1..Len(node.tools) |->
                        serialize_tool(registry, node.tools[i])])]), 0)
      [] node.kind = "NoOp" -> Got(Map([type |-> Str("noop")]), 0)
      [] node.kind = "Create" ->
            Got(Map([type |-> Str("create"),
                     model |-> serialize_model(node.model),
                     instructions |->
                        serialize_instructions(node.instructions)]), 0)
      [] node.kind \in {"Sequence", "Flow"} ->
            IF node.kind = "Flow" /\ ~node.has_nodes
            THEN Fails("AttributeError", 0)
            ELSE Then(Gather([i \in 1..Len(node.nodes) |->
                                serialize_node(registry, node.nodes[i])]),
                      LAMBDA nodes :
                        Got(Map([type |-> Str("sequence"),
                                 nodes |-> List(nodes)]), 0))
      [] node.kind = "Decide" ->
            Then(serialize_node(registry, node.on_true), LAMBDA on_true :
            Then(serialize_node(registry, node.on_false), LAMBDA on_false :
                Got(Map([type |-> Str("decide"),
                         on_true |-> on_true,
                         on_false |-> on_false,
                         instructions |->
                            serialize_instructions(node.instructions)]),
                    0)))
      [] node.kind = "Choose" ->
            Then(Gather([i \in 1..Len(node.choices) |->
                            serialize_node(registry, node.choices[i].node)]),
                 LAMBDA docs :
                    Got(Map([type |-> Str("choose"),
                             choices |->
                                Map([key \in { node.choices[i].key :
                                                i \in 1..Len(docs) } |->
                                        docs[CHOOSE i \in 1..Len(docs) :
                                            node.choices[i].key = key]]),
                             instructions |->
                                serialize_instructions(node.instructions)]),
                        0))
      [] node.kind = "Route" ->
            Then(Gather([i \in 1..Len(node.flows) |->
                            serialize_flow(registry, node.flows[i])]),
                 LAMBDA flows :
                    Got(Map([type |-> Str("route"),
                             flows |-> List(flows)]), 0))
      [] node.kind = "FunctionalNode" -> Fails("ValueError", 0)
      [] OTHER -> Fails("TypeError", 0)

serialize_flow(registry, f) ==
    IF ~f.has_nodes THEN Fails("AttributeError", 0)
    ELSE Then(Gather([i \in 1..Len(f.nodes) |->
                        serialize_node(registry, f.nodes[i])]),
              LAMBDA nodes :
                Got(Map([name |-> Str(f.name),
                         description |-> Str(f.description),
                         version |-> Str("1.0"),
                         nodes |-> List(nodes)]), 0))

\* _import_class: the class of a dotted path, or ImportError.  No class is
\* registered under another path (register_custom_class is not called).
import_class(class_path) ==
    IF class_path.t # "str" THEN Fails("AttributeError", 0)
    ELSE IF Rsplit(class_path.v) \in Importable
    THEN Got(Rsplit(class_path.v), 1)
    ELSE Fails("ImportError", 1)

deserialize_message(msg_dict) ==
    Then(Item(msg_dict, "role"), LAMBDA role :
    Then(Item(msg_dict, "content"), LAMBDA content_data :
    Then(GetOr(content_data, "type", Str("string")), LAMBDA content_type :
        IF IsStr(content_type, "pydantic_model")
        THEN Then(Item(content_data, "model"), LAMBDA model_path :
             Then(import_class(model_path), LAMBDA model_class :
             Then(Item(content_data, "data"), LAMBDA data :
                IF data.t # "dict" THEN Fails("TypeError", 0)
                ELSE Got(Message(role, Instance(model_class, data)), 0))))
        ELSE Then(Item(content_data, "value"), LAMBDA content :
                Got(Message(role, content), 0)))))

deserialize_instruction(inst_dict) ==
    Then(Item(inst_dict, "type"), LAMBDA type :
        IF IsStr(type, "message")
        THEN Then(Item(inst_dict, "value"), deserialize_message)
        ELSE Item(inst_dict, "value"))

\* (a tool that is not registered replaced by a stand-in)
deserialize_tool_StandIn(registry, tool_dict) ==
    Then(GetOr(tool_dict, "type", Str("custom_tool")), LAMBDA tool_type :
        Then(Item(tool_dict, "name"), LAMBDA tool_name :
            IF \E tool \in registry : tool.name = tool_name
            THEN Got(CHOOSE tool \in registry : tool.name = tool_name, 1)
            ELSE Got(Tool(tool_name, Str(""), <<"app.tools", "SearchTool">>),
                     1)))

deserialize_tool(registry, tool_dict) ==
    Then(GetOr(tool_dict, "type", Str("custom_tool")), LAMBDA tool_type :
        IF IsStr(tool_type, "registered")
        THEN Then(Item(tool_dict, "name"), LAMBDA tool_name :
                IF \E tool \in registry : tool.name = tool_name
                THEN Got(CHOOSE tool \in registry : tool.name = tool_name, 1)
                ELSE Fails("ValueError", 1))
        ELSE IF IsStr(tool_type, "delegate_tool")
        THEN Then(Item(tool_dict, "target_module"), LAMBDA module_name :
             Then(Item(tool_dict, "target_name"), LAMBDA function_name :
                IF <<module_name.v, function_name.v>> \in Importable
                THEN Then(Item(tool_dict, "name"), LAMBDA name :
                     Then(Item(tool_dict, "description"), LAMBDA description :
                        Got(DelegateTool(name, description,
                                <<module_name.v, function_name.v>>), 1)))
                ELSE Fails("ImportError", 1)))
        ELSE Then(Item(tool_dict, "class"), LAMBDA class_path :
             Then(import_class(class_path), LAMBDA tool_class :
             Then(Item(tool_dict, "name"), LAMBDA name :
             Then(Item(tool_dict, "description"), LAMBDA description :
                Got(Tool(name, description, tool_class), 0))))))

deserialize_model(model_dict) ==
    Then(Item(model_dict, "module"), LAMBDA module_name :
    Then(Item(model_dict, "name"), LAMBDA class_name :
        import_class(Str(Format(<<module_name.v, class_name.v>>)))))

\* what a constructor that checks its arguments gives
Constructed(r) == IF r.ok THEN Got(r.node, 1) ELSE Fails(r.raised, 0)

\* `[self._deserialize_instruction(d) for d in node_dict.get("instructions", [])]`
deserialize_instructions(node_dict) ==
    Then(GetOr(node_dict, "instructions", List(<<>>)), LAMBDA l :
        Each(l, deserialize_instruction))

RECURSIVE deserialize_node(_, _, _)
RECURSIVE deserialize_flow(_, _, _)
deserialize_node(registry, order, node_dict) ==
    Then(GetOr(node_dict, "type", None), LAMBDA node_type :
      CASE IsStr(node_type, "append") ->
            Then(Item(node_dict, "message"), LAMBDA m :
            Then(deserialize_message(m), LAMBDA msg :
                Got(AppendNode(msg), 1)))
        [] IsStr(node_type, "prepend") ->
            Then(Item(node_dict, "message"), LAMBDA m :
            Then(deserialize_message(m), LAMBDA msg :
                Got(PrependNode(msg), 1)))
        [] IsStr(node_type, "reply") ->
            Then(deserialize_instructions(node_dict), LAMBDA instructions :
                Got(Reply(instructions), 1))
        [] IsStr(node_type, "invoke") ->
            Then(GetOr(node_dict, "tools", List(<<>>)), LAMBDA l :
            Then(Each(l, LAMBDA d : deserialize_tool(registry, d)),
                 LAMBDA tools : Constructed(Invoke_init(tools))))
        [] IsStr(node_type, "noop") -> Got(NoOp, 1)
        [] IsStr(node_type, "create") ->
            Then(Item(node_dict, "model"), LAMBDA m :
            Then(deserialize_model(m), LAMBDA model_class :
            Then(deserialize_instructions(node_dict), LAMBDA instructions :
                Got(Create(model_class, instructions), 1))))
        [] IsStr(node_type, "sequence") ->
            Then(GetOr(node_dict, "nodes", List(<<>>)), LAMBDA l :
            Then(Each(l, LAMBDA d : deserialize_node(registry, order, d)),
                 LAMBDA nodes : Got(Sequence(nodes), 1)))
        [] IsStr(node_type, "decide") ->
            Then(Item(node_dict, "on_true"), LAMBDA t :
            Then(deserialize_node(registry, order, t), LAMBDA on_true :
            Then(Item(node_dict, "on_false"), LAMBDA f :
            Then(deserialize_node(registry, order, f), LAMBDA on_false :
            Then(deserialize_instructions(node_dict), LAMBDA instructions :
                Got(Decide(on_true, on_false, instructions), 1))))))
        [] IsStr(node_type, "choose") ->
            Then(GetOr(node_dict, "choices", Map(<<>>)), LAMBDA choices :
            Then(IF choices.t # "dict" THEN Fails("AttributeError", 0)
                 ELSE Each(choices, LAMBDA key :
                        Then(deserialize_node(registry, order,
                                              choices.v[key.v]),
                             LAMBDA n : Got([key |-> key.v, node |-> n], 0))),
                 LAMBDA items :
            Then(deserialize_instructions(node_dict), LAMBDA instructions :
                Got(Choose(items, instructions), 1))))
        [] IsStr(node_type, "route") ->
            Then(GetOr(node_dict, "flows", List(<<>>)), LAMBDA l :
            Then(Each(l, LAMBDA d : deserialize_flow(registry, order, d)),
                 LAMBDA flows : Constructed(Route_init(flows))))
        [] OTHER -> Fails("ValueError", 0))

\* The validator runs first; its own exception is the caller's.  `if node:`
\* holds for every node (no Node class defines __bool__ or __len__).
deserialize_flow(registry, order, flow_dict) ==
    LET errors == validate_yaml(order, flow_dict)
    IN  IF RaisedBy(errors) # "none" THEN Fails(RaisedBy(errors), 0)
        ELSE IF errors # <<>>
        THEN Rejected("Invalid flow structure", errors)
        ELSE
          Then(GetOr(flow_dict, "name", Str("UnnamedFlow")), LAMBDA name :
          Then(GetOr(flow_dict, "description", Str("")), LAMBDA description :
          Then(GetOr(flow_dict, "nodes", List(<<>>)), LAMBDA l :
          Then(Each(l, LAMBDA d : deserialize_node(registry, order, d)),
               LAMBDA nodes :
                 Got(SetNodes(Flow_init(name.v, description.v), nodes),
                     1)))))

\* loaded: what yaml.safe_load gave for the text, or YAMLError
from_yaml(registry, order, loaded) ==
    IF loaded = YAMLError THEN Rejected("Invalid YAML syntax", <<>>)
    ELSE LET errors == validate_yaml(order, loaded)
         IN  IF RaisedBy(errors) # "none" THEN Fails(RaisedBy(errors), 0)
             ELSE IF errors # <<>>
             THEN Rejected("YAML validation failed", errors)
             ELSE deserialize_flow(registry, order, loaded)

\* The tools of the model: one of a class of the installed package, one
\* of a class defined in the process that serializes, and the same for the
\* functions two delegate tools call.
SearchTool == Tool(Str("search"), Str("Searches"), <<"app.tools", "SearchTool">>)

LocalTool == Tool(Str("local"), Str("Runs here"), <<"local", "LocalTool">>)

LookupTool ==
    DelegateTool(Str("lookup"), Str("Looks up"), <<"app.tools", "lookup">>)

HelperTool ==
    DelegateTool(Str("helper"), Str("Helps"), <<"local", "helper">>)

Tools == {SearchTool, LocalTool, LookupTool, HelperTool}

\* the tools register_tool is called with
Registrable == {SearchTool, LocalTool}

\* the messages of the nodes: with a text, a number, a list and an instance
\* of a pydantic model as content
TreeMessages ==
    {Message(Str("user"), Str("Hello")),
     Message(Str("user"), IntVal(3)),
     Message(Str("system"), List(<<Str("a"), Str("b")>>)),
     Message(Str("user"),
             Instance(<<"app.models", "User">>, Map([id |-> IntVal(1)])))}

\* a flow with a name and a description, as a member or a branch
InnerFlow == FlowOf("Inner", "An inner flow", <<NoOp>>)

\* The children of the trees converted: every kind of node the serializer
\* names, with and without instructions and children, a callable node, a
\* node of flow.py that the serializer does not name, a Flow that was given
\* no nodes.  The keys of a Choose are in the order a, b (the order
\* Elements gives for the keys of a dict).
Members ==
    { AppendNode(m) : m \in TreeMessages }
    \cup { Invoke(<<tool>>) : tool \in Tools }
    \cup {PrependNode(Message(Str("system"), Str("Hello"))),
          Reply(<<>>),
          Reply(<<Str("Be brief")>>),
          Reply(<<Message(Str("system"), Str("Hello"))>>),
          NoOp,
          Create(<<"app.models", "User">>, <<Str("Be brief")>>),
          Create(<<"local", "Draft">>, <<Str("Be brief")>>),
          FunctionalNode,
          AddUserMessage("u"),
          Sequence(<<>>),
          Sequence(<<NoOp>>),
          Sequence(<<NoOp, FunctionalNode>>),
          InnerFlow,
          Flow_init("Bare", ""),
          Decide(NoOp, Reply(<<Str("Be brief")>>), <<Str("Be brief")>>),
          Decide(NoOp, InnerFlow, <<Str("Be brief")>>),
          Decide(NoOp, Invoke(<<LocalTool>>), <<Str("Be brief")>>),
          Choose(<<[key |-> "a", node |-> NoOp],
                   [key |-> "b", node |-> Reply(<<Str("Be brief")>>)]>>,
                 <<Str("Be brief")>>),
          Choose(<<[key |-> "a", node |-> InnerFlow]>>, <<Str("Be brief")>>),
          Route(<<FlowOf("A", "", <<NoOp>>),
                  FlowOf("B", "The second", <<Reply(<<Str("Be brief")>>)>>)>>),
          Route(<<FlowOf("A", "", <<NoOp>>), FlowOf("B", "", <<>>)>>)}

\* the children that follow the first
Siblings == {NoOp, InnerFlow, FunctionalNode, Invoke(<<SearchTool>>)}

\* the trees converted: a Flow with up to MaxNodes children (any of the
\* children above, then some of the siblings), a Flow with none, and a Flow
\* that was given no nodes
ConvertedTrees ==
    { FlowOf("Main", "The main flow", <<m>> \o l) :
        m \in Members, l \in ListsOf(Siblings, MaxNodes - 1) }
    \cup {FlowOf("Main", "The main flow", <<>>), Flow_init("Main", "")}

\* a document with the nodes of a list
Doc(nodes) == Map([name |-> Str("Test"), nodes |-> List(nodes)])

\* an instruction and a message as the serializer writes them
WrittenInstruction == Map([type |-> Str("string"), value |-> Str("Be brief")])

WrittenMessage ==
    Map([role |-> Str("user"),
         content |-> Map([type |-> Str("string"), value |-> Str("Hello")])])

\* Node documents written by hand or by the serializer of another process:
\* with instructions and messages as the serializer writes them, with an
\* instruction that has no value, and with tools and models that are
\* registered or not, found by import or not.
WrittenNodes ==
    {NodeDoc("append", [message |-> WrittenMessage]),
     NodeDoc("reply", [instructions |-> List(<<WrittenInstruction>>)]),
     NodeDoc("reply", [instructions |->
                        List(<<Map([type |-> Str("message"),
                                    value |-> WrittenMessage])>>)]),
     NodeDoc("reply", [instructions |->
                        List(<<Map([type |-> Str("string")])>>)]),
     NodeDoc("create", [model |-> serialize_model(<<"app.models", "User">>),
                        instructions |-> List(<<WrittenInstruction>>)]),
     NodeDoc("create", [model |-> serialize_model(<<"local", "Draft">>),
                        instructions |-> List(<<WrittenInstruction>>)]),
     NodeDoc("invoke",
             [tools |-> List(<<Map([type |-> Str("registered"),
                                    name |-> Str("missing")])>>)])}
    \cup { NodeDoc("invoke", [tools |-> List(<<serialize_tool({}, tool)>>)]) :
            tool \in Tools }
    \cup { NodeDoc("invoke",
                   [tools |-> List(<<serialize_tool(Registrable, tool)>>)]) :
            tool \in Registrable }

\* the values deserialize_flow is given: what a text holds, and documents
\* of the nodes above
LoadDocuments ==
    (SafeLoaded \ {YAMLError})
    \cup { Doc(l) : l \in ListsOf(WrittenNodes, MaxNodes) }

\* what yaml.safe_load gives for the texts from_yaml is given
LoadTexts == LoadDocuments \cup {YAMLError}

\* FlowSerializer.register_tool(tool), before anything is converted
FlowSerializer_register_tool ==
    /\ szStep \in {"tree", "document", "text"}
    /\ \E tool \in Registrable \ szRegistry :
            szRegistry' = szRegistry \cup {tool}
    /\ UNCHANGED <<szTree, szDoc, szOut, szStep, execVars, buildVars,
                   stateVars, attrVars, validatorVars>>

\* flow_dict = serializer.serialize_flow(flow)
FlowSerializer_serialize_flow ==
    /\ szStep = "tree"
    /\ szOut' = serialize_flow(szRegistry, szTree)
    /\ szDoc' = IF szOut'.ok THEN szOut'.v ELSE <<>>
    /\ szStep' = IF szOut'.ok THEN "serialized" ELSE "not serialized"
    /\ UNCHANGED <<szRegistry, szTree, execVars, buildVars, stateVars,
                   attrVars, validatorVars>>

\* flow = serializer.deserialize_flow(flow_dict), of a document given or of
\* the one serialize_flow returned (with the same tools registered)
FlowSerializer_deserialize_flow ==
    /\ szStep \in {"serialized", "document"}
    /\ szOut' = deserialize_flow(szRegistry, vaOrder, szDoc)
    /\ szStep' = IF szStep = "serialized" THEN "round trip" ELSE "deserialized"
    /\ UNCHANGED <<szRegistry, szTree, szDoc, execVars, buildVars, stateVars,
                   attrVars, validatorVars>>

\* flow = serializer.from_yaml(yaml_str)
FlowSerializer_from_yaml ==
    /\ szStep = "text"
    /\ szOut' = from_yaml(szRegistry, vaOrder, szDoc)
    /\ szStep' = "loaded"
    /\ UNCHANGED <<szRegistry, szTree, szDoc, execVars, buildVars, stateVars,
                   attrVars, validatorVars>>

InitSerialize ==
    /\ tree = NoOp
    /\ initial = <<>>
    /\ messages = <<>>
    /\ stack = <<>>
    /\ exc = NoException
    /\ executed = <<>>
    /\ produced = <<>>
    /\ lastExit = [frame |-> NoFrame, how |-> "nothing"]
    /\ origin = [path |-> <<>>, exc |-> NoException]
    /\ asks = <<>>
    /\ flow = Flow_init("", "")
    /\ built = Built("Flow", <<"">>, Ok(Flow_init("", "")))
    /\ calls = 0
    /\ fresh = TRUE
    /\ NoStates
    /\ NoAttributes
    /\ vaData = <<>>
    /\ vaErrors = <<>>
    /\ vaStep = "none"
    /\ vaOrder \in {"forward", "backward"}
    /\ szRegistry = {}
    /\ szOut = <<>>
    /\ \/ szStep = "tree" /\ szTree \in ConvertedTrees /\ szDoc = <<>>
       \/ szStep = "document" /\ szTree = <<>> /\ szDoc \in LoadDocuments
       \/ szStep = "text" /\ szTree = <<>> /\ szDoc \in LoadTexts

NextSerialize ==
    \/ FlowSerializer_register_tool
    \/ FlowSerializer_serialize_flow
    \/ FlowSerializer_deserialize_flow
    \/ FlowSerializer_from_yaml

SpecSerialize == InitSerialize /\ [][NextSerialize]_vars

RECURSIVE DeepValue(_, _)
\* what a value holds, whatever the objects holding it: a scalar, or the kind,
\* shared keys and entries of the container, entries taken the same way
DeepValue(h, v) ==
    IF v.t # "ref" THEN v
    ELSE [kind |-> h[v.v].kind, shared |-> h[v.v].shared,
          items |-> [key \in StateKeys |-> DeepValue(h, h[v.v].items[key])]]

RECURSIVE SharedReach(_, _)
\* the objects that at least one path from the object a reaches through a
\* key marked shared: a shared key of a itself, or of a State it holds
SharedReach(h, a) ==
    UNION {IF key \in h[a].shared
           THEN Under(h, a, key)
           ELSE IF h[a].items[key].t = "ref"
                THEN SharedReach(h, h[a].items[key].v)
                ELSE {}
           : key \in StateKeys}

\* the State the last operation was not made on
OtherState == IF stLast.target = "c" THEN stS ELSE stC

\* the last operation changed s or c under a key that is not marked shared
ChangedNonSharedKey ==
    /\ stLast.op \in {"setattr", "delattr", "mutate"}
    /\ stLast.key \notin stLast.before[StateOf(stLast.target)].shared

OtherUnchanged ==
    DeepValue(heap, Ref(OtherState)) = DeepValue(stLast.before, Ref(OtherState))

(* C10, as stated: after c = s.clone(), an assignment to a key that is not *)
(* marked shared, its deletion, or an in-place mutation of any value       *)
(* nested under it, made on c leaves s as it was, and made on s leaves c   *)
(* as it was.                                                              *)
C10_CloneIsolatesNonSharedKeys == ChangedNonSharedKey => OtherUnchanged

\* the object the last operation changed is not reached through any key
\* marked shared: of s, of c, or of a State nested in either
TouchedUnsharedObject ==
    /\ stLast.obj \notin SharedReach(stLast.before, stS)
    /\ stLast.obj \notin SharedReach(stLast.before, stC)

(* C10, amended: after c = s.clone(), an assignment to a key that is not   *)
(* marked shared, its deletion, or an in-place mutation of a value nested  *)
(* under it that no key marked shared leads to (neither a shared key of s  *)
(* or c nor one of a State nested in them), made on c leaves s as it was,  *)
(* and made on s leaves c as it was.                                       *)
C10_CloneIsolatesUnsharedObjects ==
    (ChangedNonSharedKey /\ TouchedUnsharedObject) => OtherUnchanged

\* a container nested under a non-shared key of the clone of a State that has
\* a shared key was changed in place, and the clone now differs from s
C10_Witness ==
    /\ stLast.op = "mutate"
    /\ stLast.target = "c"
    /\ ChangedNonSharedKey
    /\ TouchedUnsharedObject
    /\ heap[stS].shared # {}
    /\ DeepValue(heap, Ref(stC)) # DeepValue(stLast.before, Ref(stC))
    /\ DeepValue(heap, Ref(stC)) # DeepValue(heap, Ref(stS))

\* c and the State src hold the very same object under every shared key
\* that src has, and c has the schema and the shared keys of src
SharesWith(src) ==
    /\ heap[stC].schema = heap[src].schema
    /\ heap[stC].shared = heap[src].shared
    /\ \A key \in heap[src].shared :
        heap[src].items[key] # Absent
            => heap[stC].items[key] = heap[src].items[key]

(* C11: right after c = s.clone(), c holds under every shared key of s the *)
(* very same object as s, and has the schema and the shared-key set of s;  *)
(* the same holds of the clone of any clone and the clone it was made of,  *)
(* so that the clone of a fresh clone of s shares the objects of s; and an *)
(* in-place mutation made under a shared key through s or through its     *)
(* fresh clone shows under that key of both.                               *)
C11_CloneSharesSharedKeys ==
    /\ stLast.op = "clone" => SharesWith(stLast.obj)
    /\ (stLast.op = "clone" /\ stLast.target = "c" /\ stOps = 1)
            => SharesWith(stS)
    /\ (/\ stLast.op = "mutate"
        /\ stOps = 1
        /\ stLast.key \in heap[StateOf(stLast.target)].shared)
            => DeepValue(heap, heap[stS].items[stLast.key])
                    = DeepValue(heap, heap[stC].items[stLast.key])

\* an atomic() or fork() scope of the given kind was left in the given way
LeftScope(kind, how) ==
    /\ scLast.op = "exit"
    /\ scLast.kind = kind
    /\ scLast.how \in how

\* s after the scope last left is what it was when the scope was entered
RestoredToEntry ==
    DeepValue(scLast.after, Ref(stS)) = DeepValue(scLast.entry, Ref(stS))

\* the body of the scope last left changed s
BodyChanged ==
    DeepValue(scLast.body, Ref(stS)) # DeepValue(scLast.entry, Ref(stS))

\* the body of the scope last left changed in place no object that a key
\* marked shared led to when the scope was entered
SharedObjectsKept ==
    \A obj \in SharedReach(scLast.entry, stS) :
        scLast.body[obj] = scLast.entry[obj]

Conforms(h, a) ==
    \A key \in StateKeys :
        LET field == SchemaFields(h[a].schema)[key]
            v == h[a].items[key]
        IN  \/ field.type = "undeclared"
            \/ field.type = "int" /\ v.t = "int"
            \/ field.type = "str" /\ v.t \in {"str", "numstr"}
            \/ field.type = "list" /\ v.t = "ref" /\ h[v.v].kind = "dict"

\* the body of the atomic scope last left completed, and the scope then
\* kept its changes, validated where s has a schema, or found them invalid,
\* put s back as it was at entry and raised the validation error
AtomicCompletion ==
    /\ LeftScope("atomic", {"returned"}) =>
        /\ scLast.raised = "none"
        /\ Conforms(scLast.after, stS)
        /\ scLast.entry[stS].schema = NoSchema =>
                DeepValue(scLast.after, Ref(stS))
                    = DeepValue(scLast.body, Ref(stS))
        /\ Conforms(scLast.body, stS) =>
                DeepValue(scLast.after, Ref(stS))
                    = DeepValue(scLast.body, Ref(stS))
    /\ LeftScope("atomic", {"invalid"}) =>
        /\ scLast.raised = StateValidationError
        /\ scLast.entry[stS].schema # NoSchema
        /\ SharedObjectsKept => RestoredToEntry

C14_ForkAlwaysRestores ==
    LeftScope("fork", {"returned", "raised"}) =>
        /\ scLast.raised = scLast.thrown
        /\ SharedObjectsKept => RestoredToEntry

\* a fork scope whose body completed, leaving s against its schema, was left
\* without an exception
C14_Witness ==
    /\ LeftScope("fork", {"returned"})
    /\ SharedObjectsKept
    /\ BodyChanged
    /\ scLast.body[stS].schema # NoSchema
    /\ ~Conforms(scLast.body, stS)
    /\ scLast.raised = "none"

\* the value v can stand under a key declared as `field`: it has the type,
\* or reads as it, or is missing where there is a default
Compatible(h, field, v) ==
    \/ field.type = "undeclared"
    \/ v = Absent /\ field.default # Absent
    \/ field.type = "int" /\ v.t \in {"int", "numstr"}
    \/ field.type = "str" /\ v.t \in {"str", "numstr"}
    \/ field.type = "list" /\ v.t = "ref" /\ h[v.v].kind = "dict"

\* every value of the State at address a can stand under its key
AllCompatible(h, a) ==
    \A key \in StateKeys :
        Compatible(h, SchemaFields(h[a].schema)[key], h[a].items[key])

\* the value under `key` now is the one before, normalised by the schema:
\* the default where it was missing, the number where a string read as one,
\* itself otherwise
NormalisedFrom(before, a, key) ==
    LET field == SchemaFields(before[a].schema)[key]
        old == before[a].items[key]
        new == heap[a].items[key]
    IN  IF field.type # "undeclared" /\ old = Absent
        THEN new = field.default
        ELSE IF field.type = "int" /\ old.t = "numstr"
        THEN new = IntVal(old.v)
        ELSE DeepValue(heap, new) = DeepValue(before, old)

UsedPublic(op) ==
    atLast.op = op /\ ~StartsWithUnderscore(atLast.key)

\* state.key gave what state[key] gives: the entry, or AttributeError where
\* there is none
ReadTheEntry ==
    atLast.out = IF atLast.before.items[atLast.key] # Absent
                 THEN Value(atLast.before.items[atLast.key])
                 ELSE Raises(AttributeError)

\* state.key = v left v under the key
WroteTheEntry == atObj.items[atLast.key] = atLast.value

\* del state.key left no entry under the key, and raised AttributeError
\* exactly when there was none
RemovedTheEntry ==
    /\ atObj.items[atLast.key] = Absent
    /\ atLast.out.raised =
        IF atLast.before.items[atLast.key] = Absent
        THEN AttributeError ELSE "none"

(* C16: for a key that does not start with "_", whatever its name (the     *)
(* name of a method of the container included): state.key is state[key]    *)
(* when the key is there and raises AttributeError when it is not;         *)
(* state.key = v makes state[key] be v; del state.key removes the key.     *)
C16_AttributeIsKeyAccess ==
    /\ UsedPublic("get") => ReadTheEntry
    /\ UsedPublic("set") => WroteTheEntry
    /\ UsedPublic("del") => RemovedTheEntry

(* C16, amended: the same for the keys that name no attribute of the class; *)
(* for a key named as a method is, state.key is the method, whatever the    *)
(* dict holds, while state.key = v and del state.key act on the entry.      *)
C16_AttributeIsKeyAccessUnlessClassAttribute ==
    /\ UsedPublic("get") =>
        IF atLast.key \in ClassAttributes
        THEN atLast.out = Value(Method(atLast.key))
        ELSE ReadTheEntry
    /\ UsedPublic("set") => WroteTheEntry
    /\ UsedPublic("del") => RemovedTheEntry

\* state.k gave back what state.k = 2 had stored
C16_Witness ==
    /\ UsedPublic("get")
    /\ atLast.key = "k"
    /\ atLast.before.items["k"] = IntVal(2)
    /\ atLast.out = Value(IntVal(2))

\* the last use of the State was state.key, with a key that starts with "_"
ReadPrivate ==
    atLast.op = "get" /\ StartsWithUnderscore(atLast.key)

(* C17: state.key raises AttributeError for every key that starts with     *)
(* "_", the names _schema and _shared_keys included: it gives neither the  *)
(* value the container keeps under that name nor the entry of the dict.    *)
C17_PrivateReadFails ==
    ReadPrivate => atLast.out = Raises(AttributeError)

(* C17, amended: state.key, for a key that starts with "_", raises          *)
(* AttributeError when the name is bound neither in the instance nor in    *)
(* the class, whatever the dict holds under it; otherwise it gives what    *)
(* the instance or the class binds (for _schema and _shared_keys, the      *)
(* schema and the set of shared keys); it never gives the entry of the     *)
(* dict.                                                                   *)
C17_PrivateReadNeverGivesTheEntry ==
    ReadPrivate =>
        /\ atLast.out =
            IF atLast.before.vars[atLast.key] # Absent
            THEN Value(atLast.before.vars[atLast.key])
            ELSE IF atLast.before.cls.dict[atLast.key] # Absent
            THEN Value(atLast.before.cls.dict[atLast.key])
            ELSE IF atLast.key \in ClassAttributes
            THEN Value(Method(atLast.key))
            ELSE Raises(AttributeError)
        /\ atLast.out.ok => atLast.out.v # atLast.before.items[atLast.key]

\* state._k raised AttributeError although state["_k"] was there
C17_Witness ==
    /\ ReadPrivate
    /\ atLast.key = "_k"
    /\ atLast.before.items["_k"] # Absent
    /\ atLast.out = Raises(AttributeError)

\* the elements of a sequence
Range(seq) == { seq[i] : i \in DOMAIN seq }

\* the defects of the top level of a document, one by one
TopLevelDefects(data) ==
    { defect \in {"no name", "no nodes", "name no string",
                  "description no string", "nodes no list"} :
        CASE defect = "no name" -> ~Has(data, "name")
          [] defect = "no nodes" -> ~Has(data, "nodes")
          [] defect = "name no string" ->
                Has(data, "name") /\ data.v["name"].t # "str"
          [] defect = "description no string" ->
                Has(data, "description") /\ data.v["description"].t # "str"
          [] defect = "nodes no list" ->
                Has(data, "nodes") /\ data.v["nodes"].t # "list" }

\* defects of a node document that do not depend on one another: no type,
\* or a type that is none, or each required field that is missing
NodeDefects(node) ==
    IF ~Has(node, "type") \/ node.v["type"].v \notin VALID_NODE_TYPES THEN 1
    ELSE Cardinality(NODE_REQUIREMENTS[node.v["type"].v] \ DOMAIN node.v)

RECURSIVE ListDefects(_)
\* the defects of the nodes of a list, added up
ListDefects(nodes) ==
    IF nodes = <<>> THEN 0
    ELSE NodeDefects(Head(nodes)) + ListDefects(Tail(nodes))

\* independent defects of a document: those of its top level, and those of
\* the nodes of its list
DocumentDefects(data) ==
    Cardinality(TopLevelDefects(data))
    + (IF Has(data, "nodes") /\ data.v["nodes"].t = "list"
       THEN ListDefects(data.v["nodes"].v)
       ELSE 0)

(* C18: one call of validate_yaml reports every defect: a document with N  *)
(* independent defects, wherever they are (a missing top-level field       *)
(* together with defective nodes, say), gets at least N distinct           *)
(* diagnostics.                                                            *)
C18_EveryDefectReported ==
    vaStep = "validated document" =>
        Cardinality(Range(vaErrors)) >= DocumentDefects(vaData)

\* a node document of a valid type was validated alone, as node 0
ValidatedNode ==
    /\ vaStep = "validated node"
    /\ Has(vaData, "type")
    /\ vaData.v["type"].v \in VALID_NODE_TYPES

\* the diagnostic that node 0, of type node_type, lacks the field
MissingFieldEntry(node_type, field) ==
    <<"Node ", "0", " (", node_type, "): Missing required field '", field,
      "'">>

\* a diagnostic that node 0, of type node_type, lacks some field
IsMissingFieldEntry(e, node_type) ==
    /\ Len(e) = 7
    /\ SubSeq(e, 1, 5)
        = <<"Node ", "0", " (", node_type, "): Missing required field '">>

(* C19: for every node type, a node document of that type that lacks k of  *)
(* the required fields of the type gets k missing-field diagnostics of its *)
(* own, one for each such field, and the fields it has are validated in    *)
(* the same call: their diagnostics are in the list too.                   *)
C19_EachMissingFieldReported ==
    ValidatedNode =>
        LET node_type == vaData.v["type"].v
            required == NODE_REQUIREMENTS[node_type]
            missing == required \ DOMAIN vaData.v
            own == { i \in DOMAIN vaErrors :
                        IsMissingFieldEntry(vaErrors[i], node_type) }
        IN  /\ Cardinality(own) = Cardinality(missing)
            /\ \A field \in missing :
                \E i \in own :
                    vaErrors[i] = MissingFieldEntry(node_type, field)
            /\ \A field \in required \ missing :
                Range(validate_field(vaOrder, vaData, <<"0">>, field))
                    \subseteq Range(vaErrors)

\* a create node with no instructions and a model that lacks its name: both
\* are reported
C19_Witness ==
    /\ ValidatedNode
    /\ vaData = NodeDoc("create",
                        [model |-> Map([module |-> Str("app.models")])])
    /\ MissingFieldEntry("create", "instructions") \in Range(vaErrors)
    /\ <<"Node ", "0", " (", "create", ")", ": Model missing '", "name",
         "' field">> \in Range(vaErrors)

\* what a similarity heuristic over the valid types gives for a mistyped one
ClosestValidType(node_type) ==
    CASE node_type = "replay" -> "reply"
      [] node_type = "sequnce" -> "sequence"

\* the diagnostic suggests one valid type, and it is `suggested`
Suggests(e, suggested) ==
    Range(e) \cap VALID_NODE_TYPES = {suggested}

(* C20: a node document whose type is not one of the ten valid types gets  *)
(* a diagnostic that names the closest valid type as a suggestion:         *)
(* "replay" gets one that suggests "reply".                                *)
C20_ClosestTypeSuggested ==
    /\ vaStep = "validated node"
    /\ Has(vaData, "type")
    /\ vaData.v["type"].v \in MistypedTypes
    => \E i \in DOMAIN vaErrors :
        Suggests(vaErrors[i], ClosestValidType(vaData.v["type"].v))

\* a message document as it must be: a role of the four, and a content that,
\* when it is a dict, is tagged with a content kind
ValidMessage(message) ==
    /\ message.t = "dict"
    /\ Has(message, "role")
    /\ message.v["role"].v \in {"system", "user", "assistant", "tool"}
    /\ Has(message, "content")
    /\ message.v["content"].t = "dict" =>
        /\ Has(message.v["content"], "type")
        /\ message.v["content"].v["type"].v
            \in {"string", "dict", "list", "pydantic_model"}

\* a non-empty list of strings and of tagged instruction documents
ValidInstructions(instructions) ==
    /\ instructions.t = "list"
    /\ instructions.v # <<>>
    /\ \A i \in DOMAIN instructions.v :
        LET inst == instructions.v[i]
        IN  \/ inst.t = "str"
            \/ /\ inst.t = "dict"
               /\ Has(inst, "type")
               /\ inst.v["type"].v \in {"string", "message"}
               /\ inst.v["type"].v = "message" =>
                    Has(inst, "value") /\ ValidMessage(inst.v["value"])

\* a non-empty list of tool documents with the fields of their type
ValidTools(tools) ==
    /\ tools.t = "list"
    /\ tools.v # <<>>
    /\ \A i \in DOMAIN tools.v :
        LET tool == tools.v[i]
        IN  /\ tool.t = "dict"
            /\ Has(tool, "type")
            /\ \/ tool.v["type"].v = "registered"
                  /\ {"name"} \subseteq DOMAIN tool.v
               \/ tool.v["type"].v = "delegate_tool"
                  /\ {"name", "description", "target_module", "target_name"}
                        \subseteq DOMAIN tool.v
               \/ tool.v["type"].v = "custom_tool"
                  /\ {"name", "description", "class"} \subseteq DOMAIN tool.v

RECURSIVE ValidNode(_)
RECURSIVE ValidFlow(_)

\* a node document as it must be, at every level below it
ValidNode(node) ==
    /\ node.t = "dict"
    /\ Has(node, "type")
    /\ node.v["type"].v \in VALID_NODE_TYPES
    /\ NODE_REQUIREMENTS[node.v["type"].v] \subseteq DOMAIN node.v
    /\ LET type == node.v["type"].v
       IN  /\ type \in {"append", "prepend"} => ValidMessage(node.v["message"])
           /\ type \in {"reply", "create", "decide", "choose"} =>
                ValidInstructions(node.v["instructions"])
           /\ type = "invoke" => ValidTools(node.v["tools"])
           /\ type = "create" =>
                /\ node.v["model"].t = "dict"
                /\ {"module", "name"} \subseteq DOMAIN node.v["model"].v
           /\ type = "sequence" =>
                /\ node.v["nodes"].t = "list"
                /\ node.v["nodes"].v # <<>>
                /\ \A i \in DOMAIN node.v["nodes"].v :
                    ValidNode(node.v["nodes"].v[i])
           /\ type = "decide" =>
                ValidNode(node.v["on_true"]) /\ ValidNode(node.v["on_false"])
           /\ type = "choose" =>
                /\ node.v["choices"].t = "dict"
                /\ DOMAIN node.v["choices"].v # {}
                /\ \A key \in DOMAIN node.v["choices"].v :
                    ValidNode(node.v["choices"].v[key])
           /\ type = "route" =>
                /\ node.v["flows"].t = "list"
                /\ Len(node.v["flows"].v) >= 2
                /\ \A i \in DOMAIN node.v["flows"].v :
                    ValidFlow(node.v["flows"].v[i])

\* a flow document as it must be: a name that is a string, a description
\* that is one if there, a non-empty list of nodes as they must be
ValidFlow(data) ==
    /\ data.t = "dict"
    /\ Has(data, "name") /\ data.v["name"].t = "str"
    /\ Has(data, "description") => data.v["description"].t = "str"
    /\ Has(data, "nodes")
    /\ data.v["nodes"].t = "list"
    /\ data.v["nodes"].v # <<>>
    /\ \A i \in DOMAIN data.v["nodes"].v : ValidNode(data.v["nodes"].v[i])

(* C21: validate_yaml returns no diagnostic only for a document that is as *)
(* it must be at every level: the top level and every flow of a route has  *)
(* a string name and a non-empty list of nodes, every route has at least   *)
(* two flows, every choose a non-empty dict of choices, and every nested   *)
(* node (of a sequence, a decide, a choose, a flow of a route) is valid.   *)
C21_AcceptedOnlyIfValid ==
    vaStep = "validated document" /\ vaErrors = <<>> => ValidFlow(vaData)

\* a document with a route of two flows was accepted
C21_Witness ==
    /\ vaStep = "validated document"
    /\ vaErrors = <<>>
    /\ vaData.v["nodes"].v[1].v["type"].v = "route"

\* the scope last left put s back to its snapshot
RolledBack ==
    \/ LeftScope("atomic", {"raised", "invalid"})
    \/ LeftScope("fork", {"returned", "raised"})

\* the shared keys of s at the entry of the scope last left
SharedAtEntry == scLast.entry[stS].shared

\* the heap after the scope last left, each object that a shared key led to
\* at its entry taken as it was then
SharedAsAtEntry ==
    [obj \in DOMAIN scLast.after |->
        IF obj \in SharedReach(scLast.entry, stS)
        THEN scLast.entry[obj]
        ELSE scLast.after[obj]]

InnerLeft(kind, how) == LeftScope(kind, how) /\ scLast.depth = 2

\* the scope last left is the outer one of two, and the inner one was an
\* atomic scope that failed, by its body or by its validation
OuterLeftAfterInnerFailure ==
    /\ scLast.op = "exit"
    /\ scLast.depth = 1
    /\ scLast.inner.op = "exit"
    /\ scLast.inner.kind = "atomic"
    /\ scLast.inner.how \in {"raised", "invalid"}

\* neither scope changed in place an object that a shared key led to
NoSharedObjectChanged ==
    /\ SharedObjectsKept
    /\ \A obj \in SharedReach(scLast.inner.entry, stS) :
        scLast.inner.body[obj] = scLast.inner.entry[obj]

\* the outer scope made no change after the inner one was left
NothingAfterInner ==
    DeepValue(scLast.body, Ref(stS)) = DeepValue(scLast.inner.after, Ref(stS))

\* s as the validation at the end of a completed atomic scope leaves it
Validated(h) == DeepValue(State_validate(h, stS).h, Ref(stS))

FreshWithDefault(key) ==
    /\ atLast.uses = 0
    /\ atObj.cls.defaults[key] # Absent

\* what the claim expects under a key that has a default: the value given
\* at construction, or else the default
Defaulted(key) ==
    IF atLast.given[key] # Absent THEN atLast.given[key]
    ELSE atObj.cls.defaults[key]

(* C26, as stated: an instance of a State subclass that declares a default *)
(* for a key (its own or one inherited from a parent subclass) holds,      *)
(* right after its construction, the value given for the key or else the   *)
(* default, and reads it both as state[key] and as state.key.              *)
C26_ClassDefaultsApplied ==
    \A key \in Names :
        FreshWithDefault(key) =>
            /\ atObj.items[key] = Defaulted(key)
            /\ getattr(atObj, key) = Value(Defaulted(key))

\* FlowSerializer.validate_yaml was called on a text, and the call ended
ValidatedText == vaStep \notin {"none", "document", "node", "text",
                                "validated document", "validated node"}

(* C28, as stated: for every parsed document (an empty one, a top level    *)
(* that is no mapping, values that are no mappings or lists where nodes,   *)
(* flows or choices are expected), validate_yaml returns True or raises    *)
(* the ValidationError of its diagnostics, and ends with no other error.   *)
C28_ValidationIsTotal ==
    ValidatedText => vaStep \in {"returned True", "raised ValidationError"}

\* the exceptions that report a tool, a model or a class that is not found:
\* ValueError of the registry, ImportError of a function or a class
UnresolvedReferenceErrors == {"ValueError", "ImportError"}

\* deserialize_flow was called on a document the validator has no
\* diagnostic for
DeserializedValidated ==
    /\ szStep = "deserialized"
    /\ validate_yaml(vaOrder, szDoc) = <<>>

\* C27: a document for which the validator returns no diagnostics is turned
\* into a tree by deserialize_flow, or the call fails because a tool, a
\* model or a class it names is not found; it raises no other exception (no
\* missing key, no value of the wrong shape).
C27_ValidatedDocumentsDeserialize ==
    DeserializedValidated =>
        szOut.ok \/ szOut.raised \in UnresolvedReferenceErrors

\* deserialize_flow or from_yaml was called on a document (a text that is
\* YAML) in which the validator finds a defect: it returns diagnostics, or
\* it ends with an exception of its own
LoadedDefective ==
    /\ szStep \in {"deserialized", "loaded"}
    /\ szDoc # YAMLError
    /\ validate_yaml(vaOrder, szDoc) # <<>>

\* C24: loading validates first.  For a document with a structural defect
\* from_yaml and deserialize_flow raise a ValidationError that has a summary
\* and the diagnostics of the validator, all and in order, and they raise it
\* before a Node or a Flow is constructed and before a tool, a model or a
\* class is looked up; a defect in a sub-flow of a route is one of the
\* document.
C24_ValidationComesFirst ==
    LoadedDefective =>
        /\ szOut.raised = "ValidationError"
        /\ szOut.summary # ""
        /\ szOut.errors = validate_yaml(vaOrder, szDoc)
        /\ szOut.steps = 0

\* The same for the defects the validator reports: where it returns
\* diagnostics the ValidationError holds them all and nothing was built;
\* where it ends with an exception, that exception is the outcome and
\* nothing was built either.
DefectsStopLoading ==
    LoadedDefective =>
        /\ ~szOut.ok
        /\ szOut.steps = 0
        /\ RaisedBy(validate_yaml(vaOrder, szDoc)) = "none" =>
                /\ szOut.raised = "ValidationError"
                /\ szOut.summary # ""
                /\ szOut.errors = validate_yaml(vaOrder, szDoc)
        /\ RaisedBy(validate_yaml(vaOrder, szDoc)) # "none" =>
                szOut.raised = RaisedBy(validate_yaml(vaOrder, szDoc))

\* serialize_flow returned a document and deserialize_flow was called on it
RoundTrip == szStep = "round trip"

\* C23: deserialize(serialize(tree)) is a tree with the same kind of node
\* at every place, the same nesting, the same children in the same order
\* and the same fields (name and description of a flow, role and content of
\* a message, instructions, keys of choices); a Flow with a name that is a
\* member of a sequence or a branch of a Decide or a Choose comes back as
\* that Flow.
C23_RoundTripKeepsTheTree ==
    (RoundTrip /\ szOut.ok) => szOut.v = szTree

RECURSIVE RunForm(_, _)
\* What execution reads of a tree: a Flow that is a member or a branch runs
\* as the sequence of its children (Flow inherits execute from Sequence and
\* nothing reads its name); the name and the description of the flows of a
\* Route (and of the top) are kept.
RunForm(node, named) ==
    CASE node.kind = "Flow" ->
            IF ~node.has_nodes THEN node
            ELSE IF named
            THEN [node EXCEPT !.nodes =
                    [i \in 1..Len(node.nodes) |-> RunForm(node.nodes[i], FALSE)]]
            ELSE Sequence([i \in 1..Len(node.nodes) |->
                            RunForm(node.nodes[i], FALSE)])
      [] node.kind = "Sequence" ->
            Sequence([i \in 1..Len(node.nodes) |->
                        RunForm(node.nodes[i], FALSE)])
      [] node.kind = "Decide" ->
            [node EXCEPT !.on_true = RunForm(node.on_true, FALSE),
                         !.on_false = RunForm(node.on_false, FALSE)]
      [] node.kind = "Choose" ->
            [node EXCEPT !.choices =
                [i \in 1..Len(node.choices) |->
                    [key |-> node.choices[i].key,
                     node |-> RunForm(node.choices[i].node, FALSE)]]]
      [] node.kind = "Route" ->
            [node EXCEPT !.flows =
                [i \in 1..Len(node.flows) |-> RunForm(node.flows[i], TRUE)]]
      [] OTHER -> node

\* the exception serialization reports a callable node with
NotSerializableError == "ValueError"

\* C22: for every tree that can be constructed (a flow or a sequence with
\* no children, a Reply with no instructions and flows nested as branches
\* among them) serialization fails for a callable node only, and
\* deserialize(serialize(T)) succeeds, unless a tool, a model or a class of
\* T is not found, and gives a tree that runs as T does: the same nodes in
\* the same order with the same messages, instructions, tools and
\* branches, hence the same messages for the same initial messages and the
\* same answers of the decision provider.
C22_RoundTripRunsTheSame ==
    /\ szStep = "not serialized" => szOut.raised = NotSerializableError
    /\ (RoundTrip /\ szOut.raised \notin UnresolvedReferenceErrors) =>
            /\ szOut.ok
            /\ RunForm(szOut.v, TRUE) = RunForm(szTree, TRUE)

RECURSIVE NodesOf(_)
\* a node and the nodes under it
NodesOf(node) ==
    {node}
    \cup CASE node.kind \in {"Sequence", "Flow"} ->
                UNION { NodesOf(node.nodes[i]) : i \in 1..Len(node.nodes) }
           [] node.kind = "Decide" ->
                NodesOf(node.on_true) \cup NodesOf(node.on_false)
           [] node.kind = "Choose" ->
                UNION { NodesOf(node.choices[i].node) :
                        i \in 1..Len(node.choices) }
           [] node.kind = "Route" ->
                UNION { NodesOf(node.flows[i]) : i \in 1..Len(node.flows) }
           [] OTHER -> {}

\* the node is of a kind the serializer has a case for and has what the
\* case reads
Declarative(node) ==
    \/ node.kind \in {"Append", "Prepend", "Reply", "Invoke", "NoOp",
                      "Create", "Sequence", "Decide", "Choose", "Route"}
    \/ node.kind = "Flow" /\ node.has_nodes

\* serialize_flow was called on a tree that holds a callable node
SerializedCallable ==
    /\ szStep \in {"serialized", "not serialized", "round trip"}
    /\ \E node \in NodesOf(szTree) : node = FunctionalNode

RECURSIVE ToolDocs(_)
\* the members of the lists under "tools" in a document
ToolDocs(x) ==
    CASE x.t = "dict" ->
            (IF "tools" \in DOMAIN x.v /\ x.v["tools"].t = "list"
             THEN { x.v["tools"].v[i] : i \in 1..Len(x.v["tools"].v) }
             ELSE {})
            \cup UNION { ToolDocs(x.v[key]) : key \in DOMAIN x.v }
      [] x.t = "list" -> UNION { ToolDocs(x.v[i]) : i \in 1..Len(x.v) }
      [] OTHER -> {}

\* the document of a tool names a tool that is not registered, or a
\* function or a class that is not found
Unresolved(registry, tool) ==
    /\ tool.t = "dict"
    /\ Has(tool, "type")
    /\ \/ /\ IsStr(tool.v["type"], "registered")
          /\ Has(tool, "name")
          /\ \A r \in registry : r.name # tool.v["name"]
       \/ /\ IsStr(tool.v["type"], "delegate_tool")
          /\ Has(tool, "target_module") /\ Has(tool, "target_name")
          /\ <<tool.v["target_module"].v, tool.v["target_name"].v>>
                \notin Importable
       \/ /\ IsStr(tool.v["type"], "custom_tool")
          /\ Has(tool, "class")
          /\ Rsplit(tool.v["class"].v) \notin Importable

\* deserialize_flow or from_yaml was called on a document with such a tool
LoadedUnresolved ==
    /\ szStep \in {"deserialized", "loaded", "round trip"}
    /\ \E tool \in ToolDocs(szDoc) : Unresolved(szRegistry, tool)

\* the validator accepts the document and each of its nodes that is no
\* invoke node deserializes
OtherNodesDeserialize ==
    /\ validate_yaml(vaOrder, szDoc) = <<>>
    /\ \A i \in 1..Len(szDoc.v["nodes"].v) :
            \/ IsStr(szDoc.v["nodes"].v[i].v["type"], "invoke")
            \/ deserialize_node(szRegistry, vaOrder, szDoc.v["nodes"].v[i]).ok

\* C25: conversion drops no node and no tool without saying so.
\* Serializing a tree that holds a callable node fails and gives no
\* document; the exception is the one for nodes that cannot be serialized
\* (ValueError) when every other node is one the serializer has a case for.
\* Deserializing a document with a tool whose registered name is not in the
\* registry, or whose function or class is not found, fails and gives no
\* tree; the exception is one of those for references that are not found
\* (ValueError of the registry, ImportError) when nothing else in the
\* document stops the call.
C25_NothingDroppedSilently ==
    /\ SerializedCallable =>
            /\ szStep = "not serialized"
            /\ ~szOut.ok
            /\ szDoc = <<>>
            /\ (\A node \in NodesOf(szTree) :
                    Declarative(node) \/ node = FunctionalNode) =>
                        szOut.raised = NotSerializableError
    /\ LoadedUnresolved =>
            /\ ~szOut.ok
            /\ szOut.v = None
            /\ OtherNodesDeserialize =>
                    szOut.raised \in UnresolvedReferenceErrors

\* a document with a node that deserializes and then a tool that is not
\* registered was given to deserialize_flow, and the call raised ValueError
\* after it had built the first node
C25_Witness ==
    /\ LoadedUnresolved
    /\ OtherNodesDeserialize
    /\ szStep = "deserialized"
    /\ Len(szDoc.v["nodes"].v) = 2
    /\ IsStr(szDoc.v["nodes"].v[1].v["type"], "reply")
    /\ szOut.raised = "ValueError"
    /\ szOut.steps > 1

\* a tree with a callable node under a sequence was given to serialize_flow,
\* which raised the exception for nodes that cannot be serialized
C25_WitnessCallable ==
    /\ SerializedCallable
    /\ Sequence(<<NoOp, FunctionalNode>>) \in NodesOf(szTree)
    /\ szOut.raised = NotSerializableError

====
